---- MODULE Spec2Model ----
(***************************************************************************)
(* A model of pikvm-lib's input-injection subsystem: the WebSocket session *)
(* (PiKVMWebsocket: connect with retry, liveness probe, send with retry)   *)
(* and the key sequencing built on it (send_key, send_input, the           *)
(* pyautogui-style keyboard API).                                          *)
(*                                                                         *)
(* Every transport call (connect, ping, send, close) is one step whose     *)
(* outcome the environment chooses.  Python strings that the code inspects *)
(* character by character are sequences of one-character strings.         *)
(***************************************************************************)
EXTENDS Integers, Sequences, FiniteSets, TLC

\* Largest retry budget (max_retries) a Session is constructed with.
MaxBudget == 2
\* Most pieces (characters or bracketed candidates) of a text sent over a
\* reliable transport, and of one sent under transport faults.
MaxPieces == 3
MaxFaultPieces == 1
\* Most keys of a hotkey.
MaxHotkey == 2
\* Most keys of a hotkey sent over a reliable transport.
MaxChord == 3

VARIABLES
    max_retries,      \* self.max_retries
    map_csv,          \* self.map_csv: the unshifted keymap (keymap.csv)
    map_shift_csv,    \* self.map_shift_csv: the shift keymap (keymap_shift.csv)
    map_csv_pyautogui, \* PiKVMKeyboard.map_csv_pyautogui: the alias keymap
    pc,               \* where the calling thread is
    op,               \* the public call in progress (or the last one)
    queue,            \* events the call in progress has still to hand to _send_with_retry
    ws,               \* self.ws: the current handle; handles are numbered from the
                      \* one a call starts with (0), -1 before the first connect
    wsOpen,           \* the current handle's socket has not been closed by close()
    retries,          \* local `retries` of _send_with_retry
    cretries,         \* local `retries` of _connect
    last_exception,   \* local `last_exception` of _connect
    cfrom,            \* the caller _connect returns to
    calls,            \* transport calls made since the current _send_with_retry,
                      \* _ensure_connection or __init__ call began
    wire,             \* events the transport accepted during the current public call
    sstat,            \* the current/last _send_with_retry call: none, running, returned, raised
    outcome,          \* how the last public call ended
    activate_streamer, \* the activate_streamer argument the Session is constructed with
    base_wss,         \* self.base_wss: the handshake query ("unset" before line 39)
    streamer_active,  \* self.streamer_active ("unset" before line 44)
    handshakes,       \* the handshake queries this Session object's connects have used
    ws_client,        \* the facade's self.ws_client: "Session" (the Session above) or "None"
    fpc,              \* where the facade's _ensure_streamer_started call is
    width,            \* PiKVMMouse.width: <<>> while None, <<n>> once it is n
    height,           \* PiKVMMouse.height, likewise
    inbox,            \* messages the server has sent that ws.recv() has not returned yet
    received,         \* the finished calls of a caller that keeps them, with what each sent
    keymap_files,     \* the keymap files __init__ has still to read, when the model reads them
    snap,             \* the facade's snapshot fetch in progress (or the last one)
    clock,            \* the current period of the one-time code
    secret,           \* self.secret: "None" or the one-time-code secret
    headers,          \* self.headers of the Session
    thread2           \* a second thread that calls send_input on the same Session

\* What is fixed once the objects are constructed.
config == <<max_retries, map_csv, map_shift_csv, map_csv_pyautogui>>

\* The stream attributes of the Session, the facade's own state, the server's
\* end of the connection, and what else surrounds the Session: the files,
\* the facade's fetch, the authentication and a second caller.
stream == <<activate_streamer, base_wss, streamer_active, handshakes>>
facade == <<ws_client, fpc, width, height>>
auth == <<clock, secret, headers>>
world == <<keymap_files, snap, auth, thread2>>
peer == <<inbox, received, world>>

vars == <<config, pc, op, queue, ws, wsOpen, retries, cretries,
          last_exception, cfrom, calls, wire, sstat, outcome,
          stream, facade, peer>>

-----------------------------------------------------------------------------
(* Exceptions *)

\* What ws.ping() and ws.send() raise: the websocket-client exceptions, the
\* TLS EOF, and the OS-level socket errors (connection reset, broken pipe),
\* which websocket-client re-raises unchanged.
SocketErrors == {"WebSocketConnectionClosedException", "WebSocketException",
                 "SSLEOFError", "ConnectionResetError"}

\* What ws.connect() raises: refused connection, failed handshake.
ConnectErrors == {"ConnectionRefusedError", "WebSocketException"}

\* The except clause of _ensure_connection.
EnsureCaught == {"WebSocketConnectionClosedException", "WebSocketException",
                 "SSLEOFError"}

\* The except clause of _send_with_retry.
SendCaught == {"WebSocketConnectionClosedException", "WebSocketException",
               "SSLEOFError"}

NoOutcome == [st |-> "none", exc |-> "None", ret |-> "None"]
Returned(v) == [st |-> "returned", exc |-> "None", ret |-> v]
Raised(e) == [st |-> "raised", exc |-> e, ret |-> "None"]

-----------------------------------------------------------------------------
(* Events *)

\* _create_event: the JSON text of a key event, as the pair it carries.
_create_event(key, state) == [event_type |-> "key", key |-> key, state |-> state]

\* The payloads a caller hands to _send_with_retry directly.
Payloads == {_create_event("KeyA", "true"), _create_event("KeyA", "false")}

-----------------------------------------------------------------------------
(* Python strings *)

Lowers == <<"a", "b", "c", "d", "e", "f", "g", "h", "i", "j", "k", "l", "m",
            "n", "o", "p", "q", "r", "s", "t", "u", "v", "w", "x", "y", "z">>
Uppers == <<"A", "B", "C", "D", "E", "F", "G", "H", "I", "J", "K", "L", "M",
            "N", "O", "P", "Q", "R", "S", "T", "U", "V", "W", "X", "Y", "Z">>
Digits == {"0", "1", "2", "3", "4", "5", "6", "7", "8", "9"}
Spaces == {" "}

IsLower(c) == \E i \in 1..26 : Lowers[i] = c
IsUpper(c) == \E i \in 1..26 : Uppers[i] = c

\* str.upper() of one character.
UpperChar(c) == IF IsLower(c) THEN Uppers[CHOOSE i \in 1..26 : Lowers[i] = c] ELSE c

\* str.upper()
upper(s) == [i \in 1..Len(s) |-> UpperChar(s[i])]

\* str.isupper(): at least one cased character and no lowercase one.
isupper(s) == /\ \E i \in 1..Len(s) : IsUpper(s[i])
              /\ \A i \in 1..Len(s) : ~IsLower(s[i])

\* str.isdigit(), str.isspace(), str.isalpha(): non-empty and every character in the class.
isdigit(s) == Len(s) > 0 /\ \A i \in 1..Len(s) : s[i] \in Digits
isspace(s) == Len(s) > 0 /\ \A i \in 1..Len(s) : s[i] \in Spaces
isalpha(s) == Len(s) > 0 /\ \A i \in 1..Len(s) : IsLower(s[i]) \/ IsUpper(s[i])

\* A character the regular expression class \w matches.
IsWord(c) == IsLower(c) \/ IsUpper(c) \/ c \in Digits \/ c = "_"

\* `a in b` for strings: a is a substring of b.
Contains(b, a) ==
    \E i \in 0..(Len(b) - Len(a)) : \A j \in 1..Len(a) : b[i + j] = a[j]

\* The text of a character sequence, as it is formatted into an f-string.
RECURSIVE Text(_)
Text(s) == IF s = <<>> THEN "" ELSE Head(s) \o Text(Tail(s))

-----------------------------------------------------------------------------
(* Key sequencing: the events each method hands to _send_with_retry, in order *)

\* send_key that sends the press only.
send_key_NoRelease(key) == <<_create_event(key, "true")>>

\* send_key (lines 286-288): press, then release.
send_key(key) == <<_create_event(key, "true"), _create_event(key, "false")>>

\* _send_shift_key (lines 240-242).
_send_shift_key(key) ==
    <<_create_event("ShiftLeft", "true")>> \o send_key(key)
        \o <<_create_event("ShiftLeft", "false")>>

\* _send_standard_keys that does not upper-case a lowercase letter.
_send_standard_keys_NoUpper(key) ==
    IF isupper(key) THEN _send_shift_key("Key" \o Text(upper(key)))
    ELSE IF isdigit(key) THEN send_key("Digit" \o Text(key))
    ELSE IF isspace(key) THEN send_key("Space")
    ELSE send_key("Key" \o Text(key))

\* _send_standard_keys (lines 250-261); key is one character.
_send_standard_keys(key) ==
    IF isupper(key) THEN _send_shift_key("Key" \o Text(upper(key)))
    ELSE IF isdigit(key) THEN send_key("Digit" \o Text(key))
    ELSE IF isspace(key) THEN send_key("Space")
    ELSE send_key("Key" \o Text(upper(key)))

\* _send_extra_key that taps Key<UPPER(key)> for a key of neither map.
_send_extra_key_Fallback(key) ==
    IF key \in DOMAIN map_csv THEN send_key(map_csv[key])
    ELSE (IF key = <<"\"">> THEN _send_shift_key("Quote") ELSE <<>>)
         \o (IF key \in DOMAIN map_shift_csv
             THEN _send_shift_key(map_shift_csv[key])
             ELSE IF key = <<"\"">> THEN <<>>
             ELSE send_key("Key" \o Text(upper(key))))

\* _send_extra_key (lines 201-215): a KeyError of either lookup is caught.
_send_extra_key(key) ==
    IF key \in DOMAIN map_csv THEN send_key(map_csv[key])
    ELSE (IF key = <<"\"">> THEN _send_shift_key("Quote") ELSE <<>>)
         \o (IF key \in DOMAIN map_shift_csv
             THEN _send_shift_key(map_shift_csv[key])
             ELSE <<>>)

\* The end (exclusive) of a match of <\w+> that starts at i, or 0.
RECURSIVE WordEnd(_, _)
WordEnd(text, j) ==
    IF j <= Len(text) /\ IsWord(text[j]) THEN WordEnd(text, j + 1) ELSE j
MatchAt(text, i) ==
    IF i <= Len(text) /\ text[i] = "<"
    THEN LET j == WordEnd(text, i + 1) IN
         IF j > i + 1 /\ j <= Len(text) /\ text[j] = ">" THEN j + 1 ELSE 0
    ELSE 0

\* re.finditer: the non-overlapping matches from position i on, left to right.
RECURSIVE finditer(_, _)
finditer(text, i) ==
    IF i > Len(text) THEN <<>>
    ELSE LET e == MatchAt(text, i) IN
         IF e # 0
         THEN <<[start |-> i, end |-> e,
                 group |-> SubSeq(text, i, e - 1),
                 word |-> SubSeq(text, i + 1, e - 2)]>> \o finditer(text, e)
         ELSE finditer(text, i + 1)

\* _find_special_keys (lines 226-232): the matches whose text contains a key of map_csv.
_find_special_keys(text) ==
    SelectSeq(finditer(text, 1),
              LAMBDA m : \E key \in DOMAIN map_csv : Contains(m.group, key))

\* The loop of send_input without the skip over a token's span.
RECURSIVE send_input_NoSkip(_, _, _)
send_input_NoSkip(text, idx, matches) ==
    IF idx > Len(text) THEN <<>>
    ELSE IF matches # <<>> /\ matches[1].start = idx
    THEN send_key(Text(matches[1].word))
         \o send_input_NoSkip(text, idx + 1, Tail(matches))
    ELSE LET key == <<text[idx]>> IN
         (IF isalpha(key) \/ isspace(key) \/ isdigit(key)
          THEN _send_standard_keys(key)
          ELSE _send_extra_key(key))
         \o send_input_NoSkip(text, idx + 1, matches)

\* The loop of send_input (lines 319-330) from index idx on.
RECURSIVE send_input_from(_, _, _)
send_input_from(text, idx, matches) ==
    IF idx > Len(text) THEN <<>>
    ELSE IF matches # <<>> /\ matches[1].start = idx
    THEN send_key(Text(matches[1].word))
         \o send_input_from(text, idx + 1 + (matches[1].end - matches[1].start - 1),
                            Tail(matches))
    ELSE LET key == <<text[idx]>> IN
         (IF isalpha(key) \/ isspace(key) \/ isdigit(key)
          THEN _send_standard_keys(key)
          ELSE _send_extra_key(key))
         \o send_input_from(text, idx + 1, matches)

\* send_input (lines 316-330).
send_input(text) == send_input_from(text, 1, _find_special_keys(text))

\* send_ctrl_alt_sup that releases in the reverse order.
send_ctrl_alt_sup_Reversed ==
    <<_create_event("ControlLeft", "true"), _create_event("AltLeft", "true"),
      _create_event("Delete", "true"), _create_event("Delete", "false"),
      _create_event("AltLeft", "false"), _create_event("ControlLeft", "false")>>

\* send_ctrl_alt_sup (lines 267-277).
send_ctrl_alt_sup ==
    <<_create_event("ControlLeft", "true"), _create_event("AltLeft", "true"),
      _create_event("Delete", "true"), _create_event("ControlLeft", "false"),
      _create_event("AltLeft", "false"), _create_event("Delete", "false")>>

\* _requires_shift without the test for an uppercase name.
_requires_shift_NoUpper(key) ==
    key = <<"\"">> \/ key \in DOMAIN map_shift_csv

\* PiKVMKeyboard._requires_shift (pikvm_keyboard.py line 42).
_requires_shift(key) ==
    isupper(key) \/ key = <<"\"">> \/ key \in DOMAIN map_shift_csv

\* _key_to_keycode that looks in the shift map before the unshifted map.
_key_to_keycode_ShiftFirst(key) ==
    LET padded_key == IF ~Contains(key, <<"<">>) /\ ~Contains(key, <<">">>)
                      THEN <<"<">> \o key \o <<">">>
                      ELSE key
    IN  IF key \in DOMAIN map_shift_csv THEN map_shift_csv[key]
        ELSE IF padded_key \in DOMAIN map_shift_csv THEN map_shift_csv[padded_key]
        ELSE IF key \in DOMAIN map_csv THEN map_csv[key]
        ELSE IF padded_key \in DOMAIN map_csv THEN map_csv[padded_key]
        ELSE IF key \in DOMAIN map_csv_pyautogui THEN map_csv_pyautogui[key]
        ELSE IF isdigit(key) THEN "Digit" \o Text(key)
        ELSE IF isspace(key) THEN "Space"
        ELSE IF key = <<"\"">> THEN "Quote"
        ELSE "Key" \o Text(upper(key))

\* PiKVMKeyboard._key_to_keycode (pikvm_keyboard.py lines 45-70).
_key_to_keycode(key) ==
    LET padded_key == IF ~Contains(key, <<"<">>) /\ ~Contains(key, <<">">>)
                      THEN <<"<">> \o key \o <<">">>
                      ELSE key
    IN  IF key \in DOMAIN map_csv THEN map_csv[key]
        ELSE IF padded_key \in DOMAIN map_csv THEN map_csv[padded_key]
        ELSE IF key \in DOMAIN map_shift_csv THEN map_shift_csv[key]
        ELSE IF padded_key \in DOMAIN map_shift_csv THEN map_shift_csv[padded_key]
        ELSE IF key \in DOMAIN map_csv_pyautogui THEN map_csv_pyautogui[key]
        ELSE IF isdigit(key) THEN "Digit" \o Text(key)
        ELSE IF isspace(key) THEN "Space"
        ELSE IF key = <<"\"">> THEN "Quote"
        ELSE "Key" \o Text(upper(key))

shift == <<"s", "h", "i", "f", "t">>

\* An exception raised between two sends of a public call.
RaiseEvent(e) == [event_type |-> "raise", exc |-> e]

\* PiKVMKeyboard.keyDown (lines 20-23) and keyUp (lines 15-18).  The nested
\* call keyDown("shift") calls itself again when "shift" requires shift, and
\* Python ends that recursion with RecursionError before any event is sent.
keyDownShift ==
    IF _requires_shift(shift) THEN <<RaiseEvent("RecursionError")>>
    ELSE <<_create_event(_key_to_keycode(shift), "true")>>
keyUpShift ==
    IF _requires_shift(shift) THEN <<RaiseEvent("RecursionError")>>
    ELSE <<_create_event(_key_to_keycode(shift), "false")>>
keyDown(key) ==
    IF key = shift THEN keyDownShift
    ELSE (IF _requires_shift(key) THEN keyDownShift ELSE <<>>)
         \o <<_create_event(_key_to_keycode(key), "true")>>
keyUp(key) ==
    IF key = shift THEN keyUpShift
    ELSE (IF _requires_shift(key) THEN keyUpShift ELSE <<>>)
         \o <<_create_event(_key_to_keycode(key), "false")>>

\* PiKVMKeyboard.press (lines 26-28).
press(key) == keyDown(key) \o keyUp(key)

\* hotkey that releases the keys in the listed order.
hotkey_SameOrder(keys) ==
    LET RECURSIVE downs(_), ups(_)
        downs(ks) == IF ks = <<>> THEN <<>> ELSE keyDown(Head(ks)) \o downs(Tail(ks))
        ups(ks) == IF ks = <<>> THEN <<>> ELSE keyUp(Head(ks)) \o ups(Tail(ks))
    IN  downs(keys) \o ups(keys)

\* PiKVMKeyboard.hotkey (lines 31-37): down in order, up in reverse order.
RECURSIVE hotkey(_)
hotkey(keys) ==
    IF keys = <<>> THEN <<>>
    ELSE keyDown(Head(keys)) \o hotkey(Tail(keys)) \o keyUp(Head(keys))

\* send_key_press that taps the key: the requested event, then its opposite.
send_key_press_Tap(key, action) ==
    IF action \notin {"true", "false"} THEN <<RaiseEvent("RuntimeError")>>
    ELSE <<_create_event(key, action),
           _create_event(key, IF action = "true" THEN "false" ELSE "true")>>

\* send_key_press (lines 300-304): a bare `raise` with no active exception is
\* a RuntimeError.
send_key_press(key, action) ==
    IF action \notin {"true", "false"} THEN <<RaiseEvent("RuntimeError")>>
    ELSE <<_create_event(key, action)>>

-----------------------------------------------------------------------------
(* The transport log *)

Entry(c, h, ok) == [c |-> c, h |-> h, ok |-> ok]

Count(c) == Cardinality({i \in 1..Len(calls) : calls[i].c = c})
CountOk(c, ok) == Cardinality({i \in 1..Len(calls) : calls[i].c = c /\ calls[i].ok = ok})

-----------------------------------------------------------------------------
(* Inputs *)

\* The keymaps a Session is loaded with: the unshifted map, the shift map and
\* the alias map.  The first is the one of the repository's tests.
Keymaps ==
    { [csv   |-> (<<",">> :> "Comma") @@ (<<"<", "h", ">">> :> "ArrowUp"),
       shift |-> (<<"_">> :> "Minus"),
       alias |-> (shift :> "ShiftLeft") @@ (<<"c", "t", "r", "l">> :> "ControlLeft")
                 @@ (<<"a", "l", "t">> :> "AltLeft")],
      [csv   |-> (<<"h">> :> "KeyH") @@ (<<"#">> :> "Backslash"),
       shift |-> (<<"_">> :> "Minus") @@ (<<"\"">> :> "Quote")
                 @@ (<<"<">> :> "Comma") @@ (<<">">> :> "Period"),
       alias |-> (shift :> "ShiftLeft") @@ (<<"c", "t", "r", "l">> :> "ControlLeft")] }

\* The pieces texts are made of: single characters and bracketed candidates.
Pieces ==
    { <<c>> : c \in {"H", "h", "2", " ", "_", ",", "\"", "#", "<", ">"} }
    \cup { <<"<", "h", ">">>, <<"<", "H", "h", ">">> }

RECURSIVE Concat(_)
Concat(ps) == IF ps = <<>> THEN <<>> ELSE Head(ps) \o Concat(Tail(ps))

\* The texts of at most n pieces.
TextsOf(n) == { Concat(ps) : ps \in UNION { [1..k -> Pieces] : k \in 0..n } }

\* The texts send_input is called with: longer ones over a reliable
\* transport, short ones under transport faults.
Texts == TextsOf(MaxPieces)
ShortTexts == TextsOf(MaxFaultPieces)

\* The key names the keyboard API is called with.
KeyNames == { <<"a">>, <<"A">>, <<"c", "t", "r", "l">> }
Hotkeys == UNION { [1..k -> KeyNames] : k \in 1..MaxHotkey }

\* The keycodes send_key and send_key_press are called with.
Keycodes == {"KeyA", "Enter"}

\* Key names of more than one character.
ctrl == <<"c", "t", "r", "l">>
alt == <<"a", "l", "t">>
delete == <<"d", "e", "l", "e", "t", "e">>
enter == <<"e", "n", "t", "e", "r">>
tab == <<"t", "a", "b">>
Bracketed(name) == <<"<">> \o name \o <<">">>

\* The keymaps of the keyboard tests (test_pikvm_keyboard.py lines 29-48).
KeyboardTestKeymap ==
    [csv   |-> (Bracketed(enter) :> "Enter") @@ (Bracketed(tab) :> "Tab")
               @@ (<<",">> :> "Comma"),
     shift |-> (<<"_">> :> "Minus") @@ (<<"\"">> :> "Quote") @@ (<<"?">> :> "Slash"),
     alias |-> (enter :> "Enter") @@ (tab :> "Tab") @@ (shift :> "ShiftLeft")
               @@ (ctrl :> "ControlLeft") @@ (alt :> "AltLeft")
               @@ (delete :> "Delete")]

\* Keymaps in which one name has entries in several maps, under its raw and
\* under its bracketed form: p is in every map, q from the bracketed
\* unshifted entry on, r from the raw shift entry on, s from the bracketed
\* shift entry on, t in the alias map only.
OverlappingKeymap ==
    [csv   |-> (<<"p">> :> "F1") @@ (Bracketed(<<"p">>) :> "F2")
               @@ (Bracketed(<<"q">>) :> "F2"),
     shift |-> (<<"p">> :> "F3") @@ (<<"q">> :> "F3") @@ (<<"r">> :> "F3")
               @@ (Bracketed(<<"p">>) :> "F4") @@ (Bracketed(<<"q">>) :> "F4")
               @@ (Bracketed(<<"r">>) :> "F4") @@ (Bracketed(<<"s">>) :> "F4"),
     alias |-> (<<"p">> :> "F5") @@ (<<"q">> :> "F5") @@ (<<"r">> :> "F5")
               @@ (<<"s">> :> "F5") @@ (<<"t">> :> "F5")
               @@ (shift :> "ShiftLeft")]

\* The keymaps the keyboard API is exercised with.
KeyboardKeymaps == Keymaps \cup {KeyboardTestKeymap, OverlappingKeymap}

\* The key names keyDown, keyUp and press are called with over a reliable
\* transport, and the hotkeys.
KeyboardNames ==
    { <<c>> : c \in {"a", "h", " ", "_", "\"", "?", ",", "#",
                     "p", "q", "r", "s", "t"} }
    \cup { <<Uppers[i]>> : i \in 1..26 }
    \cup { <<d>> : d \in Digits }
    \cup {ctrl, alt, delete, enter, tab, shift, Bracketed(enter), Bracketed(<<"p">>)}
\* The one-character texts send_input is called with next to them.
KeyboardTexts ==
    { <<c>> : c \in {"a", "h", " ", "_", "\"", "?", ",", "#"} }
    \cup { <<Uppers[i]>> : i \in 1..26 }
    \cup { <<d>> : d \in Digits }
ChordNames == {ctrl, alt, delete, <<"a">>, <<"A">>}
Chords == UNION { [1..k -> ChordNames] : k \in 1..MaxChord }

\* No snapshot fetch has been called.
NoSnap == [fn |-> "none", at |-> "none", arg |-> 0, left |-> 0, requests |-> 0,
           depth |-> 0]

\* self.headers before BuildPiKVM.__init__ has assigned it.
NoHeaders == [user |-> "None", passwd |-> [password |-> "None", totp |-> <<>>]]

\* The second thread has not called anything.
NoThread2 == [pc |-> "idle", arg |-> <<>>, queue |-> <<>>, n |-> 0]

\* A Session whose secret argument is one of secrets, used by one thread, of
\* a facade that has fetched nothing; the clock starts in period 0.
WorldOf(secrets) ==
    /\ snap = NoSnap
    /\ clock = 0
    /\ secret \in secrets
    /\ headers = NoHeaders
    /\ thread2 = NoThread2

\* The default: no one-time-code secret (secret=None).
WorldInit == WorldOf({"None"})

\* The objects before PiKVMWebsocket.__init__ has run, max_retries being one
\* of budgets and the keymap files one of keymaps: the files are well-formed,
\* what they hold is in map_csv and map_shift_csv from the start, and
\* __init__ has none left to read; secret is one of secrets.
InitFor(budgets, keymaps, secrets) ==
    /\ max_retries \in budgets
    /\ \E km \in keymaps :
          /\ map_csv = km.csv
          /\ map_shift_csv = km.shift
          /\ map_csv_pyautogui = km.alias
    /\ pc = "new"
    /\ op = [name |-> "none"]
    /\ queue = <<>>
    /\ ws = -1
    /\ wsOpen = FALSE
    /\ retries = 0
    /\ cretries = 0
    /\ last_exception = "None"
    /\ cfrom = "none"
    /\ calls = <<>>
    /\ wire = <<>>
    /\ sstat = "none"
    /\ outcome = NoOutcome
    /\ activate_streamer = "False"
    /\ base_wss = "unset"
    /\ streamer_active = "unset"
    /\ handshakes = {}
    /\ ws_client = "Session"
    /\ fpc = "idle"
    /\ width = <<>>
    /\ height = <<>>
    /\ inbox = <<>>
    /\ received = <<>>
    /\ keymap_files = <<>>
    /\ WorldOf(secrets)

\* The same without a one-time-code secret.
InitOf(budgets, keymaps) == InitFor(budgets, keymaps, {"None"})

\* A budget of at least one attempt, as in the repository's tests and by
\* default.
InitWith(keymaps) == InitOf(1..MaxBudget, keymaps)

Init == InitWith(Keymaps)

\* An exception e leaves the public call in progress.
Propagate(e) ==
    /\ pc' = IF op.name = "__init__" THEN "failed" ELSE "done"
    /\ queue' = <<>>
    /\ outcome' = Raised(e)
    /\ sstat' = IF sstat = "running" THEN "raised" ELSE sstat

\* The except clause of _send_with_retry with the budget test off by one.
SendExcept_LateRaise(e, log) ==
    /\ retries' = retries + 1
    /\ IF retries + 1 > max_retries
       THEN /\ calls' = log
            /\ Propagate(e)
       ELSE /\ calls' = Append(log, Entry("sleep", ws, TRUE))
            /\ pc' = "retry_close"
            /\ UNCHANGED <<queue, outcome, sstat>>

\* The except clause of _send_with_retry has caught e (lines 123-128); log is
\* the transport log up to the exception.
SendExcept(e, log) ==
    /\ retries' = retries + 1
    /\ IF retries + 1 >= max_retries
       THEN /\ calls' = log
            /\ Propagate(e)
       ELSE /\ calls' = Append(log, Entry("sleep", ws, TRUE))
            /\ pc' = "retry_close"
            /\ UNCHANGED <<queue, outcome, sstat>>

\* An exception e reaches the try block of _send_with_retry (lines 116-122).
SendTry(e, log) ==
    IF e \in SendCaught
    THEN SendExcept(e, log)
    ELSE /\ calls' = log
         /\ Propagate(e)
         /\ UNCHANGED retries

\* An exception e leaves _ensure_connection.
EnsureRaise(e, log) ==
    IF op.name = "_ensure_connection"
    THEN /\ calls' = log
         /\ Propagate(e)
         /\ UNCHANGED retries
    ELSE SendTry(e, log)

\* The loop test of _send_with_retry (line 115): another pass, or the loop
\* ends and the call returns without having sent.
SendLoop ==
    IF retries < max_retries
    THEN /\ pc' = "ping"
         /\ sstat' = "running"
         /\ UNCHANGED <<queue, outcome>>
    ELSE /\ pc' = "next"
         /\ sstat' = "returned"
         /\ queue' = Tail(queue)
         /\ UNCHANGED outcome

\* _ensure_connection returns v.
EnsureReturn(v) ==
    IF op.name = "_ensure_connection"
    THEN /\ pc' = "done"
         /\ outcome' = Returned(v)
    ELSE /\ pc' = "send"
         /\ UNCHANGED outcome

-----------------------------------------------------------------------------
(* __init__ *)

\* "/api/ws?stream={}".format(int(activate_streamer)) (line 39).
HandshakeQuery(flag) == "/api/ws?stream=" \o (IF flag = "True" THEN "1" ELSE "0")

\* pyotp.TOTP(self.secret).now(): the code of the current period.
TOTP_now == <<clock>>

\* BuildPiKVM._set_headers (pikvm_aux.py lines 31-47).
_set_headers ==
    [user |-> "username",
     passwd |-> [password |-> "password",
                 totp |-> IF secret # "None" THEN TOTP_now ELSE <<>>]]

\* PiKVMWebsocket(...) is called: BuildPiKVM.__init__ computes the headers
\* (line 37, pikvm_aux.py line 28), then lines 39-43 up to the call of _connect.
Construct ==
    /\ pc = "new"
    /\ op' = [name |-> "__init__"]
    /\ pc' = "connect"
    /\ cfrom' = "init"
    /\ cretries' = 0
    /\ last_exception' = "None"
    /\ headers' = _set_headers
    /\ base_wss' = HandshakeQuery(activate_streamer)
    /\ UNCHANGED <<config, activate_streamer, streamer_active, handshakes, facade,
                   inbox, received, keymap_files, snap, clock, secret, thread2,
                   queue, ws, wsOpen, retries, calls, wire, sstat, outcome>>

-----------------------------------------------------------------------------
(* _connect: one pass of the loop body per step *)

\* ConnectOk after which _send_with_retry sends at once on the new handle,
\* without going through _ensure_connection again.
ConnectOk_SendsAtOnce ==
    /\ pc = "connect"
    /\ cretries < max_retries
    /\ calls' = Append(calls, Entry("connect", ws + 1, TRUE))
    /\ ws' = ws + 1
    /\ wsOpen' = TRUE
    /\ handshakes' = handshakes \cup {base_wss}
    /\ CASE cfrom = "init" ->
              /\ streamer_active' = activate_streamer
              /\ IF keymap_files = <<>>
                 THEN /\ pc' = "done"
                      /\ outcome' = Returned("None")
                 ELSE /\ pc' = "load"
                      /\ UNCHANGED outcome
              /\ UNCHANGED <<queue, sstat>>
         [] cfrom = "ensure" ->
              /\ EnsureReturn("False")
              /\ UNCHANGED <<queue, sstat, streamer_active>>
         [] cfrom = "retry" ->
              /\ pc' = "send"
              /\ UNCHANGED <<queue, sstat, outcome, streamer_active>>
    /\ UNCHANGED <<config, activate_streamer, base_wss, facade, peer, op, retries,
                   cretries, last_exception, cfrom, wire>>

\* ws.connect succeeded: return ws (line 77) to the caller, which assigns
\* self.ws; __init__ goes on to the keymap files (lines 44-46).
ConnectOk ==
    /\ pc = "connect"
    /\ cretries < max_retries
    /\ calls' = Append(calls, Entry("connect", ws + 1, TRUE))
    /\ ws' = ws + 1
    /\ wsOpen' = TRUE
    /\ handshakes' = handshakes \cup {base_wss}
    /\ CASE cfrom = "init" ->
              /\ streamer_active' = activate_streamer
              /\ IF keymap_files = <<>>
                 THEN /\ pc' = "done"
                      /\ outcome' = Returned("None")
                 ELSE /\ pc' = "load"
                      /\ UNCHANGED outcome
              /\ UNCHANGED <<queue, sstat>>
         [] cfrom = "ensure" ->
              /\ EnsureReturn("False")
              /\ UNCHANGED <<queue, sstat, streamer_active>>
         [] cfrom = "retry" ->
              /\ SendLoop
              /\ UNCHANGED streamer_active
    /\ UNCHANGED <<config, activate_streamer, base_wss, facade, peer, op, retries,
                   cretries, last_exception, cfrom, wire>>

\* ConnectFail that also sleeps after the last attempt.
ConnectFail_DelayAfterLast(e) ==
    /\ pc = "connect"
    /\ cretries < max_retries
    /\ last_exception' = e
    /\ cretries' = cretries + 1
    /\ LET log == Append(Append(calls, Entry("connect", ws + 1, FALSE)),
                         Entry("delay", ws, TRUE)) IN
       IF cretries + 1 < max_retries
       THEN /\ calls' = log
            /\ UNCHANGED <<pc, queue, outcome, sstat, retries>>
       ELSE CASE cfrom = "init" ->
                   /\ calls' = log
                   /\ Propagate(e)
                   /\ UNCHANGED retries
              [] cfrom = "ensure" -> EnsureRaise(e, log)
              [] cfrom = "retry" ->
                   /\ calls' = log
                   /\ Propagate(e)
                   /\ UNCHANGED retries
    /\ handshakes' = handshakes \cup {base_wss}
    /\ UNCHANGED <<config, activate_streamer, base_wss, streamer_active, facade, peer,
                   op, ws, wsOpen, cfrom, wire>>

\* ConnectFail that does not count the failed attempt.
ConnectFail_NoCount(e) ==
    /\ pc = "connect"
    /\ cretries < max_retries
    /\ last_exception' = e
    /\ calls' = Append(Append(calls, Entry("connect", ws + 1, FALSE)),
                       Entry("delay", ws, TRUE))
    /\ handshakes' = handshakes \cup {base_wss}
    /\ UNCHANGED <<config, activate_streamer, base_wss, streamer_active, facade, peer,
                   pc, op, queue, ws, wsOpen, retries, cretries, cfrom,
                   wire, sstat, outcome>>

\* ws.connect raised e (lines 78-83); after the last attempt e is re-raised (line 86).
ConnectFail(e) ==
    /\ pc = "connect"
    /\ cretries < max_retries
    /\ last_exception' = e
    /\ cretries' = cretries + 1
    /\ LET log == Append(calls, Entry("connect", ws + 1, FALSE)) IN
       IF cretries + 1 < max_retries
       THEN /\ calls' = Append(log, Entry("delay", ws, TRUE))
            /\ UNCHANGED <<pc, queue, outcome, sstat, retries>>
       ELSE CASE cfrom = "init" ->
                   /\ calls' = log
                   /\ Propagate(e)
                   /\ UNCHANGED retries
              [] cfrom = "ensure" -> EnsureRaise(e, log)
              [] cfrom = "retry" ->
                   /\ calls' = log
                   /\ Propagate(e)
                   /\ UNCHANGED retries
    /\ handshakes' = handshakes \cup {base_wss}
    /\ UNCHANGED <<config, activate_streamer, base_wss, streamer_active, facade, peer,
                   op, ws, wsOpen, cfrom, wire>>

\* _connect with max_retries = 0: the loop is not entered (line 69) and
\* `raise last_exception` (line 86) raises None, which is a TypeError.
ConnectNoAttempt ==
    /\ pc = "connect"
    /\ ~(cretries < max_retries)
    /\ CASE cfrom = "init" ->
              /\ Propagate("TypeError")
              /\ UNCHANGED <<calls, retries>>
         [] cfrom = "ensure" -> EnsureRaise("TypeError", calls)
         [] cfrom = "retry" ->
              /\ Propagate("TypeError")
              /\ UNCHANGED <<calls, retries>>
    /\ UNCHANGED <<config, stream, facade, peer, op, ws, wsOpen, cretries,
                   last_exception, cfrom, wire>>

-----------------------------------------------------------------------------
(* _ensure_connection *)

Call_ensure_connection ==
    /\ pc = "idle"
    /\ op' = [name |-> "_ensure_connection"]
    /\ pc' = "ping"
    /\ ws' = 0
    /\ calls' = <<>>
    /\ wire' = <<>>
    /\ queue' = <<>>
    /\ sstat' = "none"
    /\ outcome' = NoOutcome
    /\ UNCHANGED <<config, stream, facade, peer, wsOpen, retries, cretries, last_exception, cfrom>>

\* self.ws.ping() returned (line 95): return True (line 106).
PingOk ==
    /\ pc = "ping"
    /\ wsOpen
    /\ calls' = Append(calls, Entry("ping", ws, TRUE))
    /\ EnsureReturn("True")
    /\ UNCHANGED <<config, stream, facade, peer, op, queue, ws, wsOpen, retries, cretries,
                   last_exception, cfrom, wire, sstat>>

\* self.ws.ping() raised e; a handle whose socket was closed always raises
\* WebSocketConnectionClosedException.
PingFail(e) ==
    /\ pc = "ping"
    /\ wsOpen \/ e = "WebSocketConnectionClosedException"
    /\ LET log == Append(calls, Entry("ping", ws, FALSE)) IN
       IF e \in EnsureCaught
       THEN /\ calls' = log
            /\ pc' = "ens_close"
            /\ UNCHANGED <<queue, outcome, sstat, retries>>
       ELSE EnsureRaise(e, log)
    /\ UNCHANGED <<config, stream, facade, peer, op, ws, wsOpen, cretries, last_exception, cfrom, wire>>

\* EnsureClose that reconnects without closing the stale handle.
EnsureClose_NoClose(ok) ==
    /\ pc = "ens_close"
    /\ pc' = "connect"
    /\ cfrom' = "ensure"
    /\ cretries' = 0
    /\ last_exception' = "None"
    /\ UNCHANGED <<config, stream, facade, peer, op, queue, ws, wsOpen, calls, retries, wire, sstat, outcome>>

\* EnsureClose that lets an error of close() through.
EnsureClose_Raises(ok) ==
    /\ pc = "ens_close"
    /\ wsOpen' = FALSE
    /\ IF ok
       THEN /\ calls' = Append(calls, Entry("close", ws, ok))
            /\ pc' = "connect"
            /\ cfrom' = "ensure"
            /\ cretries' = 0
            /\ last_exception' = "None"
            /\ UNCHANGED <<queue, retries, sstat, outcome>>
       ELSE /\ EnsureRaise("WebSocketException",
                           Append(calls, Entry("close", ws, ok)))
            /\ UNCHANGED <<cfrom, cretries, last_exception>>
    /\ UNCHANGED <<config, stream, facade, peer, op, ws, wire>>

\* self.ws.close() of the stale handle (lines 100-103), then _connect (line 104).
EnsureClose(ok) ==
    /\ pc = "ens_close"
    /\ calls' = Append(calls, Entry("close", ws, ok))
    /\ wsOpen' = FALSE
    /\ pc' = "connect"
    /\ cfrom' = "ensure"
    /\ cretries' = 0
    /\ last_exception' = "None"
    /\ UNCHANGED <<config, stream, facade, peer, op, queue, ws, retries, wire, sstat, outcome>>

-----------------------------------------------------------------------------
(* _send_with_retry *)

\* SendBegin with the count of failed attempts kept from one call to the next.
SendBegin_KeepsCount ==
    /\ pc = "next"
    /\ queue # <<>>
    /\ Head(queue).event_type # "raise"
    /\ calls' = <<>>
    /\ ws' = 0
    /\ IF retries < max_retries
       THEN /\ pc' = "ping"
            /\ sstat' = "running"
            /\ UNCHANGED queue
       ELSE /\ pc' = "next"
            /\ sstat' = "returned"
            /\ queue' = Tail(queue)
    /\ UNCHANGED <<config, stream, facade, peer, op, wsOpen, retries, cretries,
                   last_exception, cfrom, wire, outcome>>

\* The public call in progress hands its next event to _send_with_retry.
SendBegin ==
    /\ pc = "next"
    /\ queue # <<>>
    /\ Head(queue).event_type # "raise"
    /\ retries' = 0
    /\ calls' = <<>>
    /\ ws' = 0
    /\ IF 0 < max_retries
       THEN /\ pc' = "ping"
            /\ sstat' = "running"
            /\ UNCHANGED queue
       ELSE /\ pc' = "next"
            /\ sstat' = "returned"
            /\ queue' = Tail(queue)
    /\ UNCHANGED <<config, stream, facade, peer, op, wsOpen, cretries, last_exception, cfrom,
                   wire, outcome>>

\* self.ws.send(event_str) returned (lines 118-119).
SendOk ==
    /\ pc = "send"
    /\ wsOpen
    /\ calls' = Append(calls, Entry("send", ws, TRUE))
    /\ wire' = Append(wire, Head(queue))
    /\ queue' = Tail(queue)
    /\ sstat' = "returned"
    /\ pc' = "next"
    /\ UNCHANGED <<config, stream, facade, peer, op, ws, wsOpen, retries, cretries, last_exception,
                   cfrom, outcome>>

\* self.ws.send(event_str) raised e.
SendFail(e) ==
    /\ pc = "send"
    /\ SendTry(e, Append(calls, Entry("send", ws, FALSE)))
    /\ UNCHANGED <<config, stream, facade, peer, op, ws, wsOpen, cretries, last_exception, cfrom, wire>>

\* RetryClose that reconnects without closing the handle the send failed on.
RetryClose_NoClose(ok) ==
    /\ pc = "retry_close"
    /\ pc' = "connect"
    /\ cfrom' = "retry"
    /\ cretries' = 0
    /\ last_exception' = "None"
    /\ UNCHANGED <<config, stream, facade, peer, op, queue, ws, wsOpen, calls, retries, wire, sstat, outcome>>

\* self.ws.close() of the handle the send failed on (lines 129-132), then
\* _connect (line 133).
RetryClose(ok) ==
    /\ pc = "retry_close"
    /\ calls' = Append(calls, Entry("close", ws, ok))
    /\ wsOpen' = FALSE
    /\ pc' = "connect"
    /\ cfrom' = "retry"
    /\ cretries' = 0
    /\ last_exception' = "None"
    /\ UNCHANGED <<config, stream, facade, peer, op, queue, ws, retries, wire, sstat, outcome>>

\* The public call in progress has sent all its events and returns.
OpReturn ==
    /\ pc = "next"
    /\ queue = <<>>
    /\ pc' = "done"
    /\ outcome' = Returned("None")
    /\ UNCHANGED <<config, stream, facade, peer, op, queue, ws, wsOpen, retries, cretries,
                   last_exception, cfrom, calls, wire, sstat>>

\* The public call in progress raises between two sends.
OpRaise ==
    /\ pc = "next"
    /\ queue # <<>>
    /\ Head(queue).event_type = "raise"
    /\ Propagate(Head(queue).exc)
    /\ UNCHANGED <<config, stream, facade, peer, op, ws, wsOpen, retries, cretries, last_exception,
                   cfrom, calls, wire>>

\* A public call that sends the events evs in order.
Begin(name, arg, evs) ==
    /\ pc = "idle"
    /\ op' = [name |-> name, arg |-> arg]
    /\ queue' = evs
    /\ wire' = <<>>
    /\ calls' = <<>>
    /\ sstat' = "none"
    /\ outcome' = NoOutcome
    /\ pc' = "next"
    /\ UNCHANGED <<config, stream, facade, peer, ws, wsOpen, retries, cretries, last_exception, cfrom>>

\* A direct call of _send_with_retry.
Call_send_with_retry ==
    /\ pc = "idle"
    /\ \E event_str \in Payloads :
          Begin("_send_with_retry", event_str, <<event_str>>)

\* close(): self.ws.close(**kwargs); an error of the transport's close propagates.
Call_close(ok) ==
    /\ pc = "idle"
    /\ op' = [name |-> "close"]
    /\ ws' = 0
    /\ calls' = <<Entry("close", 0, ok)>>
    /\ wsOpen' = FALSE
    /\ wire' = <<>>
    /\ queue' = <<>>
    /\ sstat' = "none"
    /\ outcome' = IF ok THEN Returned("None") ELSE Raised("WebSocketException")
    /\ pc' = "done"
    /\ UNCHANGED <<config, stream, facade, peer, retries, cretries, last_exception, cfrom>>

\* The caller has the result of its call and goes on; what the model recorded
\* about the finished call is dropped.
Resume ==
    /\ pc = "done"
    /\ fpc = "idle"
    /\ pc' = "idle"
    /\ op' = [name |-> "none"]
    /\ queue' = <<>>
    /\ ws' = 0
    /\ retries' = 0
    /\ cretries' = 0
    /\ last_exception' = "None"
    /\ cfrom' = "none"
    /\ calls' = <<>>
    /\ wire' = <<>>
    /\ sstat' = "none"
    /\ outcome' = NoOutcome
    /\ UNCHANGED <<config, stream, facade, peer, wsOpen>>

-----------------------------------------------------------------------------
Call_send_key ==
    /\ pc = "idle"
    /\ \E key \in Keycodes : Begin("send_key", key, send_key(key))

\* send_key_press with a key of keys.
Call_send_key_press(keys) ==
    /\ pc = "idle"
    /\ \E key \in keys, action \in {"true", "false", "press"} :
          Begin("send_key_press", <<key, action>>, send_key_press(key, action))

Call_send_ctrl_alt_sup ==
    /\ pc = "idle"
    /\ Begin("send_ctrl_alt_sup", <<>>, send_ctrl_alt_sup)

\* send_input with a text of texts.
Call_send_input(texts) ==
    /\ pc = "idle"
    /\ \E text \in texts : Begin("send_input", text, send_input(text))

\* keyDown, keyUp and press with a key name of names; hotkey with one of hotkeys.
Call_keyDown(names) ==
    /\ pc = "idle"
    /\ \E key \in names : Begin("keyDown", key, keyDown(key))

Call_keyUp(names) ==
    /\ pc = "idle"
    /\ \E key \in names : Begin("keyUp", key, keyUp(key))

Call_press(names) ==
    /\ pc = "idle"
    /\ \E key \in names : Begin("press", key, press(key))

Call_hotkey(hotkeys) ==
    /\ pc = "idle"
    /\ \E keys \in hotkeys : Begin("hotkey", keys, hotkey(keys))

-----------------------------------------------------------------------------
Next ==
    \/ Construct
    \/ ConnectOk
    \/ \E e \in ConnectErrors : ConnectFail(e)
    \/ Call_ensure_connection
    \/ PingOk
    \/ \E e \in SocketErrors : PingFail(e)
    \/ \E ok \in BOOLEAN : EnsureClose(ok)
    \/ Call_send_with_retry
    \/ SendBegin
    \/ SendOk
    \/ \E e \in SocketErrors : SendFail(e)
    \/ \E ok \in BOOLEAN : RetryClose(ok)
    \/ OpRaise
    \/ OpReturn
    \/ \E ok \in BOOLEAN : Call_close(ok)
    \/ Resume
    \/ Call_send_key
    \/ Call_send_key_press(Keycodes)
    \/ Call_send_ctrl_alt_sup
    \/ Call_send_input(ShortTexts)
    \/ Call_keyDown(KeyNames)
    \/ Call_keyUp(KeyNames)
    \/ Call_press(KeyNames)
    \/ Call_hotkey(Hotkeys)

Spec == Init /\ [][Next]_vars

\* The same Session over a transport that never fails, typing longer texts.
ReliableNext ==
    \/ Construct
    \/ ConnectOk
    \/ PingOk
    \/ SendBegin
    \/ SendOk
    \/ OpReturn
    \/ Resume
    \/ Call_send_input(Texts)

ReliableSpec == Init /\ [][ReliableNext]_vars

\* The keyboard API over a transport that never fails, with more keymaps and
\* key names.
KeyboardInit == InitWith(KeyboardKeymaps)

KeyboardNext ==
    \/ Construct
    \/ ConnectOk
    \/ PingOk
    \/ SendBegin
    \/ SendOk
    \/ OpReturn
    \/ Resume
    \/ Call_keyDown(KeyboardNames)
    \/ Call_keyUp(KeyboardNames)
    \/ Call_press(KeyboardNames)
    \/ Call_hotkey(Chords)
    \/ Call_send_ctrl_alt_sup
    \/ Call_send_input(KeyboardTexts)

KeyboardSpec == KeyboardInit /\ [][KeyboardNext]_vars

-----------------------------------------------------------------------------
(* get_json_message *)

\* What ws.recv() returns: the text of a text frame, the bytes of a binary
\* frame.
TextFrame(data) == [frame |-> "text", data |-> data]
BinaryFrame(data) == [frame |-> "binary", data |-> data]

\* Python values json.loads returns: None, or a dict with its event_type and
\* its event.streamer.source.online entries ("None" and FALSE when missing).
JsonNone == [type |-> "None", event_type |-> "None", online |-> FALSE]
JsonDict(event_type, online) ==
    [type |-> "dict", event_type |-> event_type, online |-> online]

StreamerOnlineText ==
    "{\"event_type\": \"streamer\", \"event\": {\"streamer\": {\"source\": {\"online\": true}}}}"
StreamerOfflineText ==
    "{\"event_type\": \"streamer\", \"event\": {\"streamer\": {\"source\": {\"online\": false}}}}"

\* The messages the server sends.
Messages == {TextFrame(StreamerOnlineText), TextFrame(StreamerOfflineText),
             TextFrame("null"), TextFrame("streamer online"), TextFrame(""),
             BinaryFrame("{}"), BinaryFrame("\\x80")}

\* The exception json.loads(message) raises, "None" when it returns: a text
\* that is no JSON document raises JSONDecodeError; bytes are decoded first,
\* and bytes that are no UTF-8 raise UnicodeDecodeError.
json_loads_raises(message) ==
    CASE message = BinaryFrame("\\x80") -> "UnicodeDecodeError"
      [] message \in {TextFrame("streamer online"), TextFrame("")} -> "JSONDecodeError"
      [] OTHER -> "None"

\* The value json.loads(message) returns.
json_loads(message) ==
    CASE message = TextFrame(StreamerOnlineText) -> JsonDict("streamer", TRUE)
      [] message = TextFrame(StreamerOfflineText) -> JsonDict("streamer", FALSE)
      [] message = BinaryFrame("{}") -> JsonDict("None", FALSE)
      [] message = TextFrame("null") -> JsonNone

\* get_json_message: ws.recv() returns the next message (line 149).
Call_get_json_message ==
    /\ pc = "idle"
    /\ fpc \in {"idle", "await"}
    /\ wsOpen
    /\ inbox # <<>>
    /\ LET message == Head(inbox) IN
       /\ op' = [name |-> "get_json_message", arg |-> message]
       /\ inbox' = Tail(inbox)
       /\ outcome' = CASE json_loads_raises(message) = "None" ->
                            Returned(json_loads(message))
                       [] json_loads_raises(message) = "JSONDecodeError" ->
                            Returned(JsonNone)
                       [] OTHER -> Raised(json_loads_raises(message))
    /\ ws' = 0
    /\ calls' = <<Entry("recv", 0, TRUE)>>
    /\ wire' = <<>>
    /\ queue' = <<>>
    /\ sstat' = "none"
    /\ pc' = "done"
    /\ UNCHANGED <<config, stream, facade, received, world, wsOpen, retries, cretries,
                   last_exception, cfrom>>

\* get_json_message: ws.recv() raises e, which propagates.
RecvFail(e) ==
    /\ pc = "idle"
    /\ fpc \in {"idle", "await"}
    /\ wsOpen \/ e = "WebSocketConnectionClosedException"
    /\ op' = [name |-> "get_json_message", arg |-> "None"]
    /\ outcome' = Raised(e)
    /\ ws' = 0
    /\ calls' = <<Entry("recv", 0, FALSE)>>
    /\ wire' = <<>>
    /\ queue' = <<>>
    /\ sstat' = "none"
    /\ pc' = "done"
    /\ UNCHANGED <<config, stream, facade, peer, wsOpen, retries, cretries,
                   last_exception, cfrom>>

-----------------------------------------------------------------------------
(* PiKVMStreamer._ensure_streamer_started *)

\* The test of _await_streamer_initialization on a message.
StreamerOnline(message) ==
    /\ message.type = "dict"
    /\ message.event_type = "streamer"
    /\ message.online

\* _ensure_streamer_started is called: the tests of lines 50 and 54.
Call_ensure_streamer_started ==
    /\ fpc = "idle"
    /\ \/ ws_client = "None" /\ pc = "none"
       \/ ws_client = "Session" /\ pc = "idle"
    /\ fpc' = IF ws_client # "None" /\ streamer_active # "True" THEN "close"
              ELSE IF ws_client = "None" THEN "construct"
              ELSE "ensure"
    /\ op' = [name |-> "_ensure_streamer_started"]
    /\ outcome' = NoOutcome
    /\ calls' = <<>>
    /\ UNCHANGED <<config, stream, peer, ws_client, width, height,
                   pc, queue, ws, wsOpen, retries, cretries, last_exception,
                   cfrom, wire, sstat>>

\* StreamerClose that drops the Session without closing it.
StreamerClose_Leak(ok) ==
    /\ fpc = "close"
    /\ ok
    /\ ws_client' = "None"
    /\ fpc' = "construct"
    /\ pc' = "none"
    /\ UNCHANGED <<config, stream, peer, width, height, op, queue, ws,
                   wsOpen, retries, cretries, last_exception, cfrom, calls,
                   wire, sstat, outcome>>

\* self.ws_client.close() and self.ws_client = None (lines 51-52); an error of
\* close propagates and the facade keeps the Session.
StreamerClose(ok) ==
    /\ fpc = "close"
    /\ ws' = 0
    /\ calls' = <<Entry("close", 0, ok)>>
    /\ wsOpen' = FALSE
    /\ IF ok
       THEN /\ ws_client' = "None"
            /\ fpc' = "construct"
            /\ pc' = "none"
            /\ UNCHANGED outcome
       ELSE /\ fpc' = "raised"
            /\ outcome' = Raised("WebSocketException")
            /\ UNCHANGED <<ws_client, pc>>
    /\ UNCHANGED <<config, stream, peer, width, height, op, queue,
                   retries, cretries, last_exception, cfrom, wire, sstat>>

\* PiKVMWebsocket(..., activate_streamer=True) is called (lines 56-63); the
\* new object has no attributes yet.
StreamerConstruct ==
    /\ fpc = "construct"
    /\ fpc' = "constructing"
    /\ pc' = "new"
    /\ activate_streamer' = "True"
    /\ base_wss' = "unset"
    /\ streamer_active' = "unset"
    /\ handshakes' = {}
    /\ UNCHANGED <<config, peer, ws_client, width, height, op, queue,
                   ws, wsOpen, retries, cretries, last_exception, cfrom, calls,
                   wire, sstat, outcome>>

\* The constructor returns and self.ws_client is assigned (line 56), or it
\* raises and self.ws_client stays None.
StreamerConstructed ==
    /\ fpc = "constructing"
    /\ pc \in {"done", "failed"}
    /\ IF pc = "done"
       THEN /\ ws_client' = "Session"
            /\ fpc' = "await"
            /\ pc' = "idle"
       ELSE /\ fpc' = "raised"
            /\ pc' = "none"
            /\ UNCHANGED ws_client
    /\ UNCHANGED <<config, stream, peer, width, height, op, queue, ws,
                   wsOpen, retries, cretries, last_exception, cfrom, calls,
                   wire, sstat, outcome>>

\* self.ws_client._ensure_connection() is called (line 69).
StreamerEnsure ==
    /\ fpc = "ensure"
    /\ Call_ensure_connection

\* _ensure_connection has returned or raised (lines 69-70).
StreamerEnsured ==
    /\ fpc = "ensure"
    /\ pc = "done"
    /\ op.name = "_ensure_connection"
    /\ fpc' = CASE outcome.st = "raised" -> "raised"
                [] outcome.st = "returned" /\ outcome.ret = "True" -> "returned"
                [] OTHER -> "await"
    /\ pc' = "idle"
    /\ UNCHANGED <<config, stream, peer, ws_client, width, height, op,
                   queue, ws, wsOpen, retries, cretries, last_exception, cfrom,
                   calls, wire, sstat, outcome>>

\* _await_streamer_initialization has a message, or an exception of
\* get_json_message, which it swallows (lines 33-42).
AwaitMessage ==
    /\ fpc = "await"
    /\ pc = "done"
    /\ op.name = "get_json_message"
    /\ fpc' = IF outcome.st = "returned" /\ StreamerOnline(outcome.ret)
              THEN "returned"
              ELSE "await"
    /\ pc' = "idle"
    /\ UNCHANGED <<config, stream, peer, ws_client, width, height, op,
                   queue, ws, wsOpen, retries, cretries, last_exception, cfrom,
                   calls, wire, sstat, outcome>>

\* _await_streamer_initialization times out (lines 29-31) and
\* _ensure_streamer_started raises (lines 65-67, 72-74).
AwaitTimeout ==
    /\ fpc = "await"
    /\ pc = "idle"
    /\ fpc' = "raised"
    /\ op' = [name |-> "_ensure_streamer_started"]
    /\ outcome' = Raised("Exception")
    /\ UNCHANGED <<config, stream, peer, ws_client, width, height, pc,
                   queue, ws, wsOpen, retries, cretries, last_exception, cfrom,
                   calls, wire, sstat>>

\* The caller has the result of _ensure_streamer_started and goes on.
StreamerResume ==
    /\ fpc \in {"returned", "raised"}
    /\ fpc' = "idle"
    /\ op' = [name |-> "none"]
    /\ outcome' = NoOutcome
    /\ calls' = <<>>
    /\ retries' = 0
    /\ cretries' = 0
    /\ last_exception' = "None"
    /\ cfrom' = "none"
    /\ ws' = IF pc = "none" THEN -1 ELSE 0
    /\ UNCHANGED <<config, stream, peer, ws_client, width, height, pc,
                   queue, wsOpen, wire, sstat>>

\* Most messages waiting in the connection when the facade is constructed.
MaxInbox == 2

Inboxes == UNION {[1..n -> Messages] : n \in 0..MaxInbox}

\* A facade that is given no Session, or one the caller constructs with or
\* without the stream.
StreamerInit ==
    /\ max_retries \in 1..MaxBudget
    /\ map_csv = KeyboardTestKeymap.csv
    /\ map_shift_csv = KeyboardTestKeymap.shift
    /\ map_csv_pyautogui = KeyboardTestKeymap.alias
    /\ ws_client \in {"None", "Session"}
    /\ pc = IF ws_client = "None" THEN "none" ELSE "new"
    /\ activate_streamer \in {"True", "False"}
    /\ ws_client = "None" => activate_streamer = "False"
    /\ inbox \in Inboxes
    /\ op = [name |-> "none"]
    /\ queue = <<>>
    /\ ws = -1
    /\ wsOpen = FALSE
    /\ retries = 0
    /\ cretries = 0
    /\ last_exception = "None"
    /\ cfrom = "none"
    /\ calls = <<>>
    /\ wire = <<>>
    /\ sstat = "none"
    /\ outcome = NoOutcome
    /\ base_wss = "unset"
    /\ streamer_active = "unset"
    /\ handshakes = {}
    /\ fpc = "idle"
    /\ width = <<>>
    /\ height = <<>>
    /\ received = <<>>
    /\ keymap_files = <<>>
    /\ WorldInit

StreamerNext ==
    \/ Construct
    \/ ConnectOk
    \/ \E e \in ConnectErrors : ConnectFail(e)
    \/ PingOk
    \/ \E e \in SocketErrors : PingFail(e)
    \/ \E ok \in BOOLEAN : EnsureClose(ok)
    \/ Resume
    \/ Call_get_json_message
    \/ \E e \in SocketErrors : RecvFail(e)
    \/ Call_ensure_streamer_started
    \/ \E ok \in BOOLEAN : StreamerClose(ok)
    \/ StreamerConstruct
    \/ StreamerConstructed
    \/ StreamerEnsure
    \/ StreamerEnsured
    \/ AwaitMessage
    \/ AwaitTimeout
    \/ StreamerResume

StreamerSpec == StreamerInit /\ [][StreamerNext]_vars

-----------------------------------------------------------------------------
(* Keymap loading: _map_csv and _load_keymap_pyautogui *)

\* A local variable of the loop: unbound, or bound to v.
Unbound == <<>>
Bound(v) == <<v>>

\* map_keys[key] = value.
SetItem(map_keys, key, value) ==
    [k \in DOMAIN map_keys \cup {key} |-> IF k = key THEN value ELSE map_keys[k]]

\* The for loop of _map_csv (lines 169-177) over the rows csv.reader yields,
\* with the locals map_keys, key and value.  row[0] or row[1] raises
\* IndexError on a short row; the handler formats key and value into its log
\* message, which raises UnboundLocalError while either is unbound.
RECURSIVE _map_csv_rows(_, _, _, _)
_map_csv_rows(rows, map_keys, key, value) ==
    IF rows = <<>>
    THEN Returned(map_keys)
    ELSE LET row == Head(rows) IN
         IF Len(row) >= 2
         THEN _map_csv_rows(Tail(rows), SetItem(map_keys, row[1], row[2]),
                            Bound(row[1]), Bound(row[2]))
         ELSE LET key1 == IF Len(row) >= 1 THEN Bound(row[1]) ELSE key IN
              IF key1 = Unbound \/ value = Unbound
              THEN Raised("UnboundLocalError")
              ELSE _map_csv_rows(Tail(rows), map_keys, key1, value)

\* _map_csv on a file with these rows.
_map_csv(rows) == _map_csv_rows(rows, <<>>, Unbound, Unbound)

\* The for loop of _load_keymap_pyautogui (lines 81-88): a row with an empty
\* value is skipped; the handler formats the row.
RECURSIVE _load_keymap_pyautogui_rows(_, _)
_load_keymap_pyautogui_rows(rows, map_keys) ==
    IF rows = <<>>
    THEN Returned(map_keys)
    ELSE LET row == Head(rows) IN
         IF Len(row) >= 2 /\ row[2] # ""
         THEN _load_keymap_pyautogui_rows(Tail(rows),
                                          SetItem(map_keys, row[1], row[2]))
         ELSE _load_keymap_pyautogui_rows(Tail(rows), map_keys)

_load_keymap_pyautogui(rows) == _load_keymap_pyautogui_rows(rows, <<>>)

\* Most rows of a keymap file.
MaxRows == 3

\* Rows of a keymap file: a blank line, one column, two columns.
Rows == {<<>>, <<"a">>, <<"a", "KeyA">>, <<"a", "KeyQ">>, <<"b", "KeyB">>,
         <<"c", "">>}
KeymapFiles == UNION {[1..n -> Rows] : n \in 0..MaxRows}

\* A loader is called on a keymap file and returns its map or raises.
Load(name, rows, result) ==
    /\ pc = "idle"
    /\ op' = [name |-> name, arg |-> rows]
    /\ outcome' = result
    /\ pc' = "done"
    /\ queue' = <<>>
    /\ calls' = <<>>
    /\ wire' = <<>>
    /\ sstat' = "none"
    /\ UNCHANGED <<config, stream, facade, peer, ws, wsOpen, retries, cretries,
                   last_exception, cfrom>>

Call_map_csv ==
    /\ pc = "idle"
    /\ \E rows \in KeymapFiles : Load("_map_csv", rows, _map_csv(rows))

Call_load_keymap_pyautogui ==
    /\ pc = "idle"
    /\ \E rows \in KeymapFiles :
          Load("_load_keymap_pyautogui", rows, _load_keymap_pyautogui(rows))

KeymapNext ==
    \/ Construct
    \/ ConnectOk
    \/ Resume
    \/ Call_map_csv
    \/ Call_load_keymap_pyautogui

KeymapSpec == Init /\ [][KeymapNext]_vars

-----------------------------------------------------------------------------
(* PiKVMMouse *)

\* int(): the quotient num / den, den > 0, truncated toward zero.
int(num, den) == IF num >= 0 THEN num \div den ELSE -((-num) \div den)

\* _scale_axis with 0x10000 for 0xFFFF.
_scale_axis_FullScale(screen, size) == int(screen * 65536 - 32768 * size, size)

\* int((screen / size) * 0xFFFF - 0x8000) (lines 80 and 83), as the exact
\* quotient (screen * 65535 - 32768 * size) / size truncated: the
\* floating-point expression has this value for every size up to 2200 and
\* every pixel of 0..size.
_scale_axis(screen, size) == int(screen * 65535 - 32768 * size, size)

_scale_mouse_xy_to_i16(screenx, screeny, w, h) ==
    <<_scale_axis(screenx, w), _scale_axis(screeny, h)>>

\* The JSON texts of the mouse events, as the values they carry.
mouse_button_event(button, state) ==
    [event_type |-> "mouse_button", button |-> button, state |-> state]
mouse_move_event(kvm) ==
    [event_type |-> "mouse_move", to |-> [x |-> kvm[1], y |-> kvm[2]]]

Buttons == {"left", "right", "middle", "up", "down"}

\* send_mouse_event with the button check before the state check.
send_mouse_event_ButtonFirst(button, state) ==
    IF button \notin Buttons
    THEN <<RaiseEvent("ValueError: Invalid mouse button")>>
    ELSE IF state \notin {"true", "false"}
    THEN <<RaiseEvent("ValueError: Invalid mouse button state")>>
    ELSE <<mouse_button_event(button, state)>>

\* send_mouse_event (lines 50-65).
send_mouse_event(button, state) ==
    IF state \notin {"true", "false"}
    THEN <<RaiseEvent("ValueError: Invalid mouse button state")>>
    ELSE IF button \notin Buttons
    THEN <<RaiseEvent("ValueError: Invalid mouse button")>>
    ELSE <<mouse_button_event(button, state)>>

\* send_click (lines 137-139).
send_click(button) ==
    send_mouse_event(button, "true") \o send_mouse_event(button, "false")

\* The frame sizes get_streamer_image reports, and the pixels of an axis of
\* size n that are used: all of them on a small frame, else the corners, the
\* quarters, the centre and their neighbours.
FrameSizes == {<<1920, 1080>>, <<7, 5>>, <<2, 2>>, <<1, 1>>}
SmallFrame == 8
Pixels(n) ==
    IF n <= SmallFrame
    THEN 0..n
    ELSE {0, 1, n \div 4, n \div 2, (3 * n) \div 4, n - 1, n}

\* The points send_mouse_move_event is called with.
MovePoints == {<<0, 0>>, <<1, 1>>, <<7, 5>>, <<960, 540>>, <<1920, 1080>>}

ButtonNames == Buttons \cup {"invalid"}
ButtonStates == {"true", "false", "invalid"}

Call_scale_mouse_xy_to_i16 ==
    /\ pc = "idle"
    /\ \E size \in FrameSizes :
       \E screenx \in Pixels(size[1]), screeny \in Pixels(size[2]) :
          /\ op' = [name |-> "_scale_mouse_xy_to_i16",
                    arg |-> <<screenx, screeny, size[1], size[2]>>]
          /\ outcome' = Returned(_scale_mouse_xy_to_i16(screenx, screeny,
                                                        size[1], size[2]))
    /\ pc' = "done"
    /\ queue' = <<>>
    /\ calls' = <<>>
    /\ wire' = <<>>
    /\ sstat' = "none"
    /\ UNCHANGED <<config, stream, facade, peer, ws, wsOpen, retries, cretries,
                   last_exception, cfrom>>

Call_send_mouse_event ==
    /\ pc = "idle"
    /\ \E button \in ButtonNames, state \in ButtonStates :
          Begin("send_mouse_event", <<button, state>>,
                send_mouse_event(button, state))

Call_send_click ==
    /\ pc = "idle"
    /\ \E button \in ButtonNames :
          Begin("send_click", button, send_click(button))

\* send_mouse_move_event is called: with the frame size cached it scales and
\* sends (lines 100-110), else it first calls get_streamer_image (line 95).
Call_send_mouse_move_event ==
    /\ pc = "idle"
    /\ \E point \in MovePoints :
          IF width = <<>> \/ height = <<>>
          THEN /\ op' = [name |-> "send_mouse_move_event", arg |-> point]
               /\ pc' = "fetch"
               /\ queue' = <<>>
               /\ wire' = <<>>
               /\ calls' = <<>>
               /\ sstat' = "none"
               /\ outcome' = NoOutcome
               /\ UNCHANGED <<config, stream, facade, peer, ws, wsOpen, retries,
                              cretries, last_exception, cfrom>>
          ELSE Begin("send_mouse_move_event", point,
                     <<mouse_move_event(_scale_mouse_xy_to_i16(
                           point[1], point[2], width[1], height[1]))>>)

\* FetchOk that does not keep the frame size.
FetchOk_NoCache ==
    /\ pc = "fetch"
    /\ \E size \in FrameSizes :
          queue' = <<mouse_move_event(_scale_mouse_xy_to_i16(
                         op.arg[1], op.arg[2], size[1], size[2]))>>
    /\ calls' = <<Entry("get_streamer_image", 0, TRUE)>>
    /\ pc' = "next"
    /\ UNCHANGED <<config, stream, facade, peer, op, ws, wsOpen, retries,
                   cretries, last_exception, cfrom, wire, sstat, outcome>>

\* get_streamer_image returned an image: its size is kept (line 96) and the
\* event is built from it (lines 100-109).  The call of the accessor is
\* entered in the log of the public call.
FetchOk ==
    /\ pc = "fetch"
    /\ \E size \in FrameSizes :
          /\ width' = <<size[1]>>
          /\ height' = <<size[2]>>
          /\ queue' = <<mouse_move_event(_scale_mouse_xy_to_i16(
                            op.arg[1], op.arg[2], size[1], size[2]))>>
    /\ calls' = <<Entry("get_streamer_image", 0, TRUE)>>
    /\ pc' = "next"
    /\ UNCHANGED <<config, stream, peer, ws_client, fpc, op, ws, wsOpen,
                   retries, cretries, last_exception, cfrom, wire, sstat,
                   outcome>>

\* get_streamer_image raised, which leaves send_mouse_move_event at line 95.
FetchFail ==
    /\ pc = "fetch"
    /\ calls' = <<Entry("get_streamer_image", 0, FALSE)>>
    /\ Propagate("Exception")
    /\ UNCHANGED <<config, stream, facade, peer, op, ws, wsOpen, retries,
                   cretries, last_exception, cfrom, wire>>

\* The mouse API over a transport that never fails.
MouseNext ==
    \/ Construct
    \/ ConnectOk
    \/ PingOk
    \/ SendBegin
    \/ SendOk
    \/ OpReturn
    \/ OpRaise
    \/ Resume
    \/ Call_scale_mouse_xy_to_i16
    \/ Call_send_mouse_event
    \/ Call_send_click
    \/ Call_send_mouse_move_event
    \/ FetchOk
    \/ FetchFail

MouseSpec == Init /\ [][MouseNext]_vars

-----------------------------------------------------------------------------
(* Holding a key across calls *)

\* Most calls a caller keeps.
MaxKept == 3

\* The keys send_key_press is called with and the texts typed in between
\* (test_send_key_press).
HoldKeys == {"ControlLeft", "KeyB"}
HoldTexts == { <<"b">>, <<"h">> }

\* The caller has the result of its call and goes on; of a call made on the
\* constructed Session it keeps the call with its result and the events the
\* transport took.
Keep ==
    /\ pc = "done"
    /\ fpc = "idle"
    /\ Len(received) < MaxKept
    /\ received' = IF op.name = "__init__" THEN received
                   ELSE Append(received,
                               [op |-> op, st |-> outcome.st, wire |-> wire])
    /\ pc' = "idle"
    /\ op' = [name |-> "none"]
    /\ queue' = <<>>
    /\ calls' = <<>>
    /\ wire' = <<>>
    /\ sstat' = "none"
    /\ outcome' = NoOutcome
    /\ ws' = 0
    /\ UNCHANGED <<config, stream, facade, inbox, world, wsOpen, retries, cretries,
                   last_exception, cfrom>>

\* Raw presses and releases around typed text, over a transport that never
\* fails.
HoldNext ==
    \/ Construct
    \/ ConnectOk
    \/ PingOk
    \/ SendBegin
    \/ SendOk
    \/ OpReturn
    \/ OpRaise
    \/ Keep
    \/ Call_send_key_press(HoldKeys)
    \/ Call_send_input(HoldTexts)

HoldSpec == Init /\ [][HoldNext]_vars

-----------------------------------------------------------------------------
(* The retry budget *)

\* The caller assigns the attribute max_retries of a constructed Session, as
\* the retry tests do.
Set_max_retries ==
    /\ pc = "idle"
    /\ max_retries' \in 0..MaxBudget
    /\ UNCHANGED <<map_csv, map_shift_csv, map_csv_pyautogui, stream, facade,
                   peer, pc, op, queue, ws, wsOpen, retries, cretries,
                   last_exception, cfrom, calls, wire, sstat, outcome>>

\* Sessions of every budget from 0 on.
BudgetInit == InitOf(0..MaxBudget, Keymaps)

\* _send_with_retry under transport faults, the budget being any value.
BudgetNext ==
    \/ Construct
    \/ ConnectOk
    \/ \E e \in ConnectErrors : ConnectFail(e)
    \/ ConnectNoAttempt
    \/ Set_max_retries
    \/ Call_send_with_retry
    \/ PingOk
    \/ \E e \in SocketErrors : PingFail(e)
    \/ \E ok \in BOOLEAN : EnsureClose(ok)
    \/ SendBegin
    \/ SendOk
    \/ \E e \in SocketErrors : SendFail(e)
    \/ \E ok \in BOOLEAN : RetryClose(ok)
    \/ OpReturn
    \/ Resume

BudgetSpec == BudgetInit /\ [][BudgetNext]_vars

-----------------------------------------------------------------------------
(* Recovery after an outage *)

\* The transport fails while the caller's first call is in progress: connection
\* attempts, pings and sends raise.
Outage ==
    /\ received = <<>>
    /\ \/ \E e \in ConnectErrors : ConnectFail(e)
       \/ \E e \in SocketErrors : PingFail(e)
       \/ \E e \in SocketErrors : SendFail(e)

\* A ping on a handle that has been closed.
PingClosed ==
    /\ ~wsOpen
    /\ PingFail("WebSocketConnectionClosedException")

\* What the Session and a transport in working order do.
RecoverStep ==
    \/ ConnectOk
    \/ PingOk
    \/ PingClosed
    \/ \E ok \in BOOLEAN : EnsureClose(ok)
    \/ SendBegin
    \/ SendOk
    \/ \E ok \in BOOLEAN : RetryClose(ok)
    \/ OpReturn

\* A caller whose first call on the Session meets an outage and whose later
\* calls meet a transport in working order.
RecoverNext ==
    \/ Construct
    \/ RecoverStep
    \/ Outage
    \/ Keep
    \/ Call_ensure_connection
    \/ Call_send_with_retry

\* A call in progress goes on: the transport answers every request, and the
\* Session's own steps are those of the one thread that runs it.
RecoverSpec == Init /\ [][RecoverNext]_vars /\ WF_vars(RecoverStep)

-----------------------------------------------------------------------------
(* Use after close() *)

\* A caller that closes the Session and goes on using it, over a transport in
\* working order.
CloseNext ==
    \/ Construct
    \/ ConnectOk
    \/ PingOk
    \/ PingClosed
    \/ \E ok \in BOOLEAN : EnsureClose(ok)
    \/ SendBegin
    \/ SendOk
    \/ OpReturn
    \/ OpRaise
    \/ Keep
    \/ \E ok \in BOOLEAN : Call_close(ok)
    \/ Call_ensure_connection
    \/ Call_send_with_retry
    \/ Call_send_key
    \/ Call_send_click

CloseSpec == Init /\ [][CloseNext]_vars

-----------------------------------------------------------------------------
(* __init__ reading the keymap files *)

\* A keymap file: missing, or present with the rows csv.reader yields.
LoadRows == UNION {[1..n -> Rows] : n \in 0..(MaxRows - 1)}
LoadFiles ==
    {[present |-> FALSE, rows |-> <<>>]}
    \cup {[present |-> TRUE, rows |-> rows] : rows \in LoadRows}

\* open() and _map_csv on a keymap file.
LoadFile(file) ==
    IF file.present THEN _map_csv(file.rows) ELSE Raised("FileNotFoundError")

\* self.map_csv = self._map_csv() (line 45), then
\* self.map_shift_csv = self._map_csv("keymap_shift.csv") (line 46); an
\* exception of either leaves __init__.
LoadKeymap ==
    /\ pc = "load"
    /\ LET result == LoadFile(Head(keymap_files)) IN
       IF result.st = "raised"
       THEN /\ Propagate(result.exc)
            /\ UNCHANGED <<map_csv, map_shift_csv, keymap_files>>
       ELSE /\ IF Len(keymap_files) = 2
               THEN map_csv' = result.ret /\ UNCHANGED map_shift_csv
               ELSE map_shift_csv' = result.ret /\ UNCHANGED map_csv
            /\ keymap_files' = Tail(keymap_files)
            /\ IF Len(keymap_files) = 1
               THEN pc' = "done" /\ outcome' = Returned("None")
               ELSE UNCHANGED <<pc, outcome>>
            /\ UNCHANGED <<queue, sstat>>
    /\ UNCHANGED <<max_retries, map_csv_pyautogui, stream, facade, inbox,
                   received, snap, auth, thread2, op, ws, wsOpen, retries, cretries, last_exception,
                   cfrom, calls, wire>>

\* The objects before __init__ has run, the two keymap files being any.
LoadInit ==
    /\ max_retries \in 1..MaxBudget
    /\ map_csv = <<>>
    /\ map_shift_csv = <<>>
    /\ map_csv_pyautogui = <<>>
    /\ keymap_files \in [1..2 -> LoadFiles]
    /\ pc = "new"
    /\ op = [name |-> "none"]
    /\ queue = <<>>
    /\ ws = -1
    /\ wsOpen = FALSE
    /\ retries = 0
    /\ cretries = 0
    /\ last_exception = "None"
    /\ cfrom = "none"
    /\ calls = <<>>
    /\ wire = <<>>
    /\ sstat = "none"
    /\ outcome = NoOutcome
    /\ activate_streamer = "False"
    /\ base_wss = "unset"
    /\ streamer_active = "unset"
    /\ handshakes = {}
    /\ ws_client = "Session"
    /\ fpc = "idle"
    /\ width = <<>>
    /\ height = <<>>
    /\ inbox = <<>>
    /\ received = <<>>
    /\ WorldInit

LoadNext ==
    \/ Construct
    \/ ConnectOk
    \/ \E e \in ConnectErrors : ConnectFail(e)
    \/ LoadKeymap

LoadSpec == LoadInit /\ [][LoadNext]_vars

-----------------------------------------------------------------------------
(* keyDown and keyUp over any keymaps *)

\* The keymaps of the keyboard tests with an entry for the name shift in the
\* shift map as well.
ShiftInShiftKeymap ==
    [csv   |-> KeyboardTestKeymap.csv,
     shift |-> KeyboardTestKeymap.shift @@ (shift :> "ShiftLeft"),
     alias |-> KeyboardTestKeymap.alias]

NestKeymaps == {KeyboardTestKeymap, OverlappingKeymap, ShiftInShiftKeymap}
NestNames ==
    { <<c>> : c \in {"a", "A", "2", " ", "_", "\"", ",", "p", "r"} }
    \cup {shift, ctrl, enter, Bracketed(enter)}

NestInit == InitWith(NestKeymaps)

NestNext ==
    \/ Construct
    \/ ConnectOk
    \/ PingOk
    \/ SendBegin
    \/ SendOk
    \/ OpReturn
    \/ OpRaise
    \/ Resume
    \/ Call_keyDown(NestNames)
    \/ Call_keyUp(NestNames)

NestSpec == NestInit /\ [][NestNext]_vars

-----------------------------------------------------------------------------
(* PiKVMStreamer.get_streamer_snapshot and get_streamer_image *)

\* Largest max_retries get_streamer_image is called with.
MaxImageRetries == 2
\* Most nested calls of a fetch the interpreter's stack holds.
RecursionLimit == 5

\* get_streamer_image(max_retries=n) or get_streamer_snapshot() is called by
\* the facade's user, no fetch being in progress.
FetchCall(fn, n) ==
    /\ fpc = "idle"
    /\ snap.at \in {"none", "returned", "raised"}
    /\ \/ ws_client = "None" /\ pc = "none"
       \/ ws_client = "Session" /\ pc = "idle"
    /\ snap' = [fn |-> fn, at |-> "ensure", arg |-> n, left |-> n,
                requests |-> 0, depth |-> 1]
    /\ op' = [name |-> fn]
    /\ outcome' = NoOutcome
    /\ UNCHANGED <<config, stream, facade, inbox, received, keymap_files, auth,
                   thread2, pc, queue, ws, wsOpen, retries, cretries,
                   last_exception, cfrom, calls, wire, sstat>>

Call_get_streamer_image ==
    /\ fpc = "idle"
    /\ \E n \in 0..MaxImageRetries : FetchCall("get_streamer_image", n)

\* get_streamer_snapshot has no max_retries.
Call_get_streamer_snapshot ==
    /\ fpc = "idle"
    /\ FetchCall("get_streamer_snapshot", 0)

\* self._ensure_streamer_started() (lines 137 and 176).
FetchEnsure ==
    /\ snap.at = "ensure"
    /\ Call_ensure_streamer_started

\* What the model recorded about the finished _ensure_streamer_started call
\* is dropped.
FetchForget ==
    /\ fpc' = "idle"
    /\ op' = [name |-> snap.fn]
    /\ calls' = <<>>
    /\ retries' = 0
    /\ cretries' = 0
    /\ last_exception' = "None"
    /\ cfrom' = "none"
    /\ ws' = IF pc = "none" THEN -1 ELSE 0

\* _ensure_streamer_started raised: the exception leaves the fetch and every
\* call of it that is nested around this one.
FetchEnsureRaised ==
    /\ snap.at = "ensure"
    /\ fpc = "raised"
    /\ snap' = [snap EXCEPT !.at = "raised"]
    /\ FetchForget
    /\ UNCHANGED <<config, stream, ws_client, width, height, inbox, received,
                   keymap_files, auth, thread2, pc, queue, wsOpen, wire, sstat,
                   outcome>>

\* response = self._get(path, options) and its validation: a valid response
\* is returned as the file or the image (lines 150-160, 178-191); on an error
\* result get_streamer_image raises when max_retries <= 0 (lines 180-182),
\* and otherwise both go on to close the Session.
FetchRequest(valid) ==
    /\ snap.at = "ensure"
    /\ fpc = "returned"
    /\ FetchForget
    /\ IF valid
       THEN /\ snap' = [snap EXCEPT !.at = "returned", !.requests = @ + 1]
            /\ outcome' = Returned(snap.fn)
       ELSE IF snap.fn = "get_streamer_image" /\ snap.left <= 0
       THEN /\ snap' = [snap EXCEPT !.at = "raised", !.requests = @ + 1]
            /\ outcome' = Raised("Exception")
       ELSE /\ snap' = [snap EXCEPT !.at = "close", !.requests = @ + 1]
            /\ outcome' = NoOutcome
    /\ UNCHANGED <<config, stream, ws_client, width, height, inbox, received,
                   keymap_files, auth, thread2, pc, queue, wsOpen, wire, sstat>>

\* self.ws_client.close() and the nested call (lines 152-153, 185-186):
\* get_streamer_image passes max_retries - 1, get_streamer_snapshot passes
\* what it was called with.  An error of close propagates; a call nested
\* deeper than the interpreter's stack allows raises RecursionError.
FetchClose(ok) ==
    /\ snap.at = "close"
    /\ ws' = 0
    /\ calls' = <<Entry("close", 0, ok)>>
    /\ wsOpen' = FALSE
    /\ IF ~ok
       THEN /\ snap' = [snap EXCEPT !.at = "raised"]
            /\ outcome' = Raised("WebSocketException")
       ELSE IF snap.depth >= RecursionLimit
       THEN /\ snap' = [snap EXCEPT !.at = "raised"]
            /\ outcome' = Raised("RecursionError")
       ELSE /\ snap' = [snap EXCEPT
                          !.at = "ensure",
                          !.left = IF snap.fn = "get_streamer_image"
                                   THEN @ - 1 ELSE @,
                          !.depth = @ + 1]
            /\ UNCHANGED outcome
    /\ UNCHANGED <<config, stream, facade, inbox, received, keymap_files, auth,
                   thread2, pc, op, queue, retries, cretries, last_exception,
                   cfrom, wire, sstat>>

\* What the server sends on a connection while the facade waits for the
\* streamer: its state events.
StateEvents == {TextFrame(StreamerOnlineText), TextFrame(StreamerOfflineText)}

ServerSends ==
    /\ fpc = "await"
    /\ pc = "idle"
    /\ wsOpen
    /\ inbox = <<>>
    /\ \E message \in StateEvents : inbox' = <<message>>
    /\ UNCHANGED <<config, stream, facade, received, world, pc, op, queue, ws,
                   wsOpen, retries, cretries, last_exception, cfrom, calls,
                   wire, sstat, outcome>>

\* _await_streamer_initialization calls get_json_message (line 34).
AwaitRecv ==
    /\ fpc = "await"
    /\ Call_get_json_message

\* A facade with no Session or with one its user constructs, nothing having
\* been sent by the server yet.
FetchInit ==
    /\ StreamerInit
    /\ inbox = <<>>

\* The fetches over a transport whose connects and pings of an open handle
\* succeed, against a device that answers a request with a snapshot or with
\* an error result.
FetchNext ==
    \/ Construct
    \/ ConnectOk
    \/ PingOk
    \/ PingClosed
    \/ \E ok \in BOOLEAN : EnsureClose(ok)
    \/ Resume
    \/ ServerSends
    \/ AwaitRecv
    \/ \E ok \in BOOLEAN : StreamerClose(ok)
    \/ StreamerConstruct
    \/ StreamerConstructed
    \/ StreamerEnsure
    \/ StreamerEnsured
    \/ AwaitMessage
    \/ AwaitTimeout
    \/ Call_get_streamer_image
    \/ Call_get_streamer_snapshot
    \/ FetchEnsure
    \/ FetchEnsureRaised
    \/ \E valid \in BOOLEAN : FetchRequest(valid)
    \/ \E ok \in BOOLEAN : FetchClose(ok)

FetchSpec == FetchInit /\ [][FetchNext]_vars

-----------------------------------------------------------------------------
(* The one-time code of the handshake *)

\* Last period of the one-time code the clock reaches.
MaxClock == 2

\* Time passes: the next period of the one-time code begins.  A period is
\* long against the statements between _set_headers and the first
\* ws.connect of __init__ (lines 37-75), so that none begins there.
Tick ==
    /\ clock < MaxClock
    /\ ~(pc = "connect" /\ cfrom = "init" /\ calls = <<>>)
    /\ clock' = clock + 1
    /\ UNCHANGED <<config, stream, facade, inbox, received, keymap_files, snap,
                   secret, headers, thread2, pc, op, queue, ws, wsOpen, retries,
                   cretries, last_exception, cfrom, calls, wire, sstat, outcome>>

\* A Session constructed with or without a one-time-code secret.
TotpInit == InitFor(1..MaxBudget, Keymaps, {"None", "secret"})

\* _ensure_connection and _send_with_retry under transport faults, while
\* time passes.
TotpNext ==
    \/ Construct
    \/ ConnectOk
    \/ \E e \in ConnectErrors : ConnectFail(e)
    \/ Call_ensure_connection
    \/ PingOk
    \/ \E e \in SocketErrors : PingFail(e)
    \/ \E ok \in BOOLEAN : EnsureClose(ok)
    \/ Call_send_with_retry
    \/ SendBegin
    \/ SendOk
    \/ \E e \in SocketErrors : SendFail(e)
    \/ \E ok \in BOOLEAN : RetryClose(ok)
    \/ OpReturn
    \/ Resume
    \/ Tick

TotpSpec == TotpInit /\ [][TotpNext]_vars

-----------------------------------------------------------------------------
(* Two threads on one Session *)

\* The texts the two threads send.
ThreadTexts == {<<"H">>, <<"a">>}
\* Most calls the second thread makes.
MaxThreadCalls == 2

\* The second thread calls send_input on the Session the first constructed.
Thread2Call ==
    /\ thread2.pc = "idle"
    /\ thread2.n < MaxThreadCalls
    /\ pc \in {"idle", "next", "ping", "send", "done"}
    /\ \E text \in ThreadTexts :
          thread2' = [pc |-> "next", arg |-> text, queue |-> send_input(text),
                      n |-> thread2.n + 1]
    /\ UNCHANGED <<config, stream, facade, inbox, received, keymap_files, snap,
                   auth, pc, op, queue, ws, wsOpen, retries, cretries,
                   last_exception, cfrom, calls, wire, sstat, outcome>>

\* Its _send_with_retry is called with the next event (lines 116-118).
Thread2Begin ==
    /\ thread2.pc = "next"
    /\ thread2.queue # <<>>
    /\ thread2' = IF 0 < max_retries
                  THEN [thread2 EXCEPT !.pc = "ping"]
                  ELSE [thread2 EXCEPT !.queue = Tail(@)]
    /\ UNCHANGED <<config, stream, facade, inbox, received, keymap_files, snap,
                   auth, pc, op, queue, ws, wsOpen, retries, cretries,
                   last_exception, cfrom, calls, wire, sstat, outcome>>

\* Its self.ws.ping() returned (line 95).
Thread2Ping ==
    /\ thread2.pc = "ping"
    /\ wsOpen
    /\ thread2' = [thread2 EXCEPT !.pc = "send"]
    /\ UNCHANGED <<config, stream, facade, inbox, received, keymap_files, snap,
                   auth, pc, op, queue, ws, wsOpen, retries, cretries,
                   last_exception, cfrom, calls, wire, sstat, outcome>>

\* Thread2Send of a Session that holds a lock for the whole of a public call.
Thread2Send_Locked ==
    /\ thread2.pc = "send"
    /\ pc \in {"idle", "done"}
    /\ wsOpen
    /\ wire' = IF pc \in {"next", "ping", "send"}
               THEN Append(wire, Head(thread2.queue))
               ELSE wire
    /\ thread2' = [thread2 EXCEPT !.pc = "next", !.queue = Tail(@)]
    /\ UNCHANGED <<config, stream, facade, inbox, received, keymap_files, snap,
                   auth, pc, op, queue, ws, wsOpen, retries, cretries,
                   last_exception, cfrom, calls, sstat, outcome>>

\* Its self.ws.send(event_str) returned (line 120): the event is on the
\* connection, after whatever either thread sent before; wire takes it when
\* a call of the first thread is in progress.
Thread2Send ==
    /\ thread2.pc = "send"
    /\ wsOpen
    /\ wire' = IF pc \in {"next", "ping", "send"}
               THEN Append(wire, Head(thread2.queue))
               ELSE wire
    /\ thread2' = [thread2 EXCEPT !.pc = "next", !.queue = Tail(@)]
    /\ UNCHANGED <<config, stream, facade, inbox, received, keymap_files, snap,
                   auth, pc, op, queue, ws, wsOpen, retries, cretries,
                   last_exception, cfrom, calls, sstat, outcome>>

\* Its send_input returns.
Thread2Return ==
    /\ thread2.pc = "next"
    /\ thread2.queue = <<>>
    /\ thread2' = [thread2 EXCEPT !.pc = "idle"]
    /\ UNCHANGED <<config, stream, facade, inbox, received, keymap_files, snap,
                   auth, pc, op, queue, ws, wsOpen, retries, cretries,
                   last_exception, cfrom, calls, wire, sstat, outcome>>

\* Two threads calling send_input on one Session over a transport that never
\* fails.
ThreadsNext ==
    \/ Construct
    \/ ConnectOk
    \/ PingOk
    \/ SendBegin
    \/ SendOk
    \/ OpReturn
    \/ Resume
    \/ Call_send_input(ThreadTexts)
    \/ Thread2Call
    \/ Thread2Begin
    \/ Thread2Ping
    \/ Thread2Send
    \/ Thread2Return

ThreadsSpec == Init /\ [][ThreadsNext]_vars

-----------------------------------------------------------------------------
(* Properties *)

\* The _send_with_retry call whose transport log is in calls has ended.
SendEnded == sstat \in {"returned", "raised"}

\* The errors of websocket-client and the TLS EOF: the transport errors the
\* repository's tests inject.
WebSocketErrors == {"WebSocketConnectionClosedException", "WebSocketException",
                    "SSLEOFError"}

Last(log) == log[Len(log)]
Sends == SelectSeq(calls, LAMBDA c : c.c = "send")
ClosesOf(h) == {i \in 1..Len(calls) : calls[i].c = "close" /\ calls[i].h = h}

\* C1: a _send_with_retry call in which every send attempt fails with a
\* websocket/TLS transport error, while every ping and every reconnect
\* succeeds, raises that error after exactly max_retries send attempts and
\* exactly max_retries - 1 close calls, none of them after the last failure.
C1_AllSendsFail ==
    /\ SendEnded
    /\ Count("send") >= 1
    /\ CountOk("send", TRUE) = 0
    /\ CountOk("ping", FALSE) = 0
    /\ CountOk("connect", FALSE) = 0
    /\ outcome.exc \in WebSocketErrors \cup {"None"}
C2_FailThenSucceed ==
    /\ SendEnded
    /\ Len(Sends) >= 2
    /\ ~Sends[1].ok
    /\ Sends[2].ok
C2_SecondSendDelivers ==
    C2_FailThenSucceed =>
        LET i == CHOOSE k \in 1..Len(calls) : calls[k] = Sends[1]
            j == CHOOSE k \in 1..Len(calls) : calls[k] = Sends[2]
        IN  /\ sstat = "returned"
            /\ outcome.st # "raised"
            /\ CountOk("send", TRUE) = 1
            /\ wire # <<>>
            /\ op.name = "_send_with_retry" => wire = <<op.arg>>
            /\ calls[j].h = ws
            /\ calls[j].h > calls[i].h
            /\ Cardinality(ClosesOf(calls[i].h)) = 1
            /\ \A k \in ClosesOf(calls[i].h) : i < k /\ k < j
C2_Witness ==
    /\ C2_FailThenSucceed
    /\ op.name = "_send_with_retry"
    /\ pc = "done"
    /\ Len(calls) = 7

\* C3: _connect, called by __init__, makes its attempts one after another with
\* one delay between two attempts; an attempt follows only failed attempts; if
\* attempt k <= max_retries succeeds the call returns that handle after k
\* attempts and k - 1 delays; if max_retries attempts fail it raises the error
\* of the last attempt after max_retries attempts and max_retries - 1 delays.
C3_InitEnded == pc \in {"done", "failed"} /\ op.name = "__init__"
C3_ConnectRetries ==
    C3_InitEnded =>
        LET n == Count("connect") IN
        /\ n >= 1
        /\ n <= max_retries
        /\ Len(calls) = 2 * n - 1
        /\ Count("delay") = n - 1
        /\ \A i \in 1..Len(calls) :
              /\ calls[i].c = IF i % 2 = 1 THEN "connect" ELSE "delay"
              /\ (i < Len(calls) /\ calls[i].c = "connect") => ~calls[i].ok
        /\ outcome.st \in {"returned", "raised"}
        /\ outcome.st = "returned" =>
              /\ pc = "done"
              /\ Last(calls).ok
              /\ ws = Last(calls).h
              /\ wsOpen
        /\ outcome.st = "raised" =>
              /\ pc = "failed"
              /\ ~Last(calls).ok
              /\ n = max_retries
              /\ outcome.exc = last_exception
              /\ outcome.exc \in ConnectErrors
C3_Witness ==
    /\ C3_InitEnded
    /\ max_retries = 2
    /\ outcome.st = "returned"
    /\ Count("connect") = 2
    /\ Count("delay") = 1

\* C4: an _ensure_connection call pings the current handle once.  If the ping
\* succeeds it returns True, calls no close and leaves the handle unchanged.
\* If the ping fails with an error the call does not let through, it calls
\* close on the stale handle exactly once, whether or not that close raises,
\* then connects as _connect does: it returns False with a newly connected
\* handle, or raises the last connect error after max_retries failed attempts.
\* A ping error it lets through is none of the websocket/TLS errors.
C4_EnsureEnded == pc = "done" /\ op.name = "_ensure_connection"
C5_AfterEnsure(j) ==
    /\ j > 1
    /\ calls[j].h = calls[j - 1].h
    /\ \/ calls[j - 1] = Entry("ping", calls[j].h, TRUE)
       \/ /\ calls[j - 1] = Entry("connect", calls[j].h, TRUE)
          /\ \E i \in 1..(j - 3) :
                /\ calls[i].c = "ping"
                /\ ~calls[i].ok
                /\ calls[i + 1].c = "close"
                /\ \A k \in (i + 2)..(j - 1) : calls[k].c \in {"connect", "delay"}
C5_EnsureBeforeEverySend ==
    \A j \in 1..Len(calls) : calls[j].c = "send" => C5_AfterEnsure(j)
C5_Witness ==
    /\ Len(Sends) = 2
    /\ Count("ping") = 2
    /\ CountOk("ping", FALSE) = 1
    /\ Last(calls).c = "send"
    /\ Last(calls).h = 2

\* C6: an error raised by the ping or by the send of a _send_with_retry call
\* leaves the call only when the retry budget is used up: a call that raised
\* straight after a failed ping or send has made max_retries attempts.
C6_TransportErrorsRetried ==
    (/\ sstat = "raised"
     /\ calls # <<>>
     /\ Last(calls).c \in {"ping", "send"}
     /\ outcome.exc \in SocketErrors)
        => Count("ping") >= max_retries

\* C7: retries are bounded.  A call in progress can always take its next
\* step, every step of a call makes a transport call or ends the call, and a
\* call makes boundedly many transport calls: __init__ and _ensure_connection
\* at most max_retries connection attempts, one _send_with_retry call at most
\* max_retries send attempts and max_retries * (2 * max_retries - 1)
\* connection attempts.  So every call returns or raises.
InCall == pc \in {"connect", "ping", "ens_close", "send", "retry_close"}
CallStep ==
    \/ ConnectOk
    \/ \E e \in ConnectErrors : ConnectFail(e)
    \/ PingOk
    \/ \E e \in SocketErrors : PingFail(e)
    \/ \E ok \in BOOLEAN : EnsureClose(ok)
    \/ SendOk
    \/ \E e \in SocketErrors : SendFail(e)
    \/ \E ok \in BOOLEAN : RetryClose(ok)
C7_Bounds ==
    /\ Count("send") <= max_retries
    /\ Count("ping") <= max_retries
    /\ Count("connect") <= IF op.name \in {"__init__", "_ensure_connection"}
                           THEN max_retries
                           ELSE max_retries * (2 * max_retries - 1)
    /\ Len(calls) <= max_retries * (4 * max_retries + 3)
    /\ InCall => ENABLED CallStep
C7_RetriesBounded ==
    /\ []C7_Bounds
    /\ [][InCall => (Len(calls') > Len(calls) \/ ~InCall')]_vars
C7_Witness ==
    /\ max_retries = 2
    /\ sstat = "raised"
    /\ Count("send") = 2
    /\ Count("connect") = 6

\* C8 as claimed: when a send_key, press, hotkey, send_input or
\* send_ctrl_alt_sup call ends, by returning or by raising, every press the
\* transport accepted is followed by an accepted release of the same keycode.
InputOps == {"send_key", "press", "hotkey", "send_input", "send_ctrl_alt_sup"}
Released(w) ==
    \A i \in 1..Len(w) :
        w[i].state = "true" =>
            \E j \in (i + 1)..Len(w) : w[j].key = w[i].key /\ w[j].state = "false"
C9_Plain(text) ==
    \A i \in 1..Len(text) :
        IsLower(text[i]) \/ IsUpper(text[i]) \/ text[i] \in Digits \/ text[i] \in Spaces
C9_Tap(keycode) ==
    <<[event_type |-> "key", key |-> keycode, state |-> "true"],
      [event_type |-> "key", key |-> keycode, state |-> "false"]>>
C9_Group(c) ==
    IF IsUpper(c)
    THEN <<[event_type |-> "key", key |-> "ShiftLeft", state |-> "true"]>>
         \o C9_Tap("Key" \o c)
         \o <<[event_type |-> "key", key |-> "ShiftLeft", state |-> "false"]>>
    ELSE IF IsLower(c) THEN C9_Tap("Key" \o UpperChar(c))
    ELSE IF c \in Digits THEN C9_Tap("Digit" \o c)
    ELSE C9_Tap("Space")
RECURSIVE C9_Groups(_)
C9_Groups(text) ==
    IF text = <<>> THEN <<>> ELSE C9_Group(Head(text)) \o C9_Groups(Tail(text))
C9_PlainTextInOrder ==
    (pc = "done" /\ op.name = "send_input" /\ C9_Plain(op.arg))
        => (outcome.st = "returned" /\ wire = C9_Groups(op.arg))
C9_Witness ==
    /\ pc = "done"
    /\ op.name = "send_input"
    /\ op.arg = <<"H", "2">>
    /\ Len(wire) = 6

\* C10: in send_input the accepted tokens do not overlap and are in text
\* order, and the output is, for each accepted token in turn, the literal
\* processing of the characters before it (after the previous token), then
\* one press and one release of the token's name; after the last token come
\* the remaining characters.  No character of a token's span is emitted as a
\* literal, and every accepted token is consumed once.
C10_Literal(c) ==
    IF isalpha(<<c>>) \/ isspace(<<c>>) \/ isdigit(<<c>>)
    THEN _send_standard_keys(<<c>>)
    ELSE _send_extra_key(<<c>>)
RECURSIVE C10_Literals(_)
C10_Literals(chars) ==
    IF chars = <<>> THEN <<>>
    ELSE C10_Literal(Head(chars)) \o C10_Literals(Tail(chars))
RECURSIVE C10_Output(_, _, _)
C10_Output(text, pos, tokens) ==
    IF tokens = <<>> THEN C10_Literals(SubSeq(text, pos, Len(text)))
    ELSE C10_Literals(SubSeq(text, pos, tokens[1].start - 1))
         \o C9_Tap(Text(tokens[1].word))
         \o C10_Output(text, tokens[1].end, Tail(tokens))
C10_TokensTappedOnce ==
    (pc = "done" /\ op.name = "send_input"
        /\ _find_special_keys(op.arg) # <<>>)
        => LET tokens == _find_special_keys(op.arg) IN
           /\ tokens[1].start >= 1
           /\ \A k \in 1..Len(tokens) :
                 /\ tokens[k].start + 2 < tokens[k].end
                 /\ tokens[k].end <= Len(op.arg) + 1
                 /\ k < Len(tokens) => tokens[k].end <= tokens[k + 1].start
           /\ outcome.st = "returned"
           /\ wire = C10_Output(op.arg, 1, tokens)
C10_Witness ==
    /\ pc = "done"
    /\ op.name = "send_input"
    /\ op.arg = <<"2", "<", "h", ">", "H">>
    /\ Len(_find_special_keys(op.arg)) = 1
    /\ Len(wire) = 8

\* C11: _find_special_keys accepts a candidate <word> exactly when its name,
\* without or with its brackets, is a key of map_csv: the tokens send_input
\* works with are the candidates of the text that have such a key.
C11_Candidates(text) == finditer(text, 1)
C11_NameIsKey(m) == m.word \in DOMAIN map_csv \/ m.group \in DOMAIN map_csv
C11_AcceptedIffNameIsKey ==
    (pc = "done" /\ op.name = "send_input")
        => _find_special_keys(op.arg) = SelectSeq(C11_Candidates(op.arg), C11_NameIsKey)

\* C12: for a key that needs shift, keyDown sends ShiftLeft down and then the
\* key down, and keyUp sends the key up and then ShiftLeft up.
KeyEvent(keycode, state) == [event_type |-> "key", key |-> keycode, state |-> state]
C12_NeedsShift ==
    /\ pc = "done"
    /\ outcome.st = "returned"
    /\ op.name \in {"keyDown", "keyUp"}
    /\ op.arg # shift
    /\ _requires_shift(op.arg)
C12_ShiftAroundKey ==
    C12_NeedsShift =>
        wire = IF op.name = "keyDown"
               THEN <<KeyEvent("ShiftLeft", "true"),
                      KeyEvent(_key_to_keycode(op.arg), "true")>>
               ELSE <<KeyEvent(_key_to_keycode(op.arg), "false"),
                      KeyEvent("ShiftLeft", "false")>>

\* C13: hotkey(k1..kn) with keys that need no shift sends exactly 2n events:
\* the presses of k1..kn in the listed order, then the releases in the
\* reverse order kn..k1.
C13_Presses(keys) ==
    [i \in 1..Len(keys) |-> KeyEvent(_key_to_keycode(keys[i]), "true")]
C13_Releases(keys) ==
    [i \in 1..Len(keys) |->
        KeyEvent(_key_to_keycode(keys[Len(keys) + 1 - i]), "false")]
C13_HotkeyReleasesInReverse ==
    (/\ pc = "done"
     /\ op.name = "hotkey"
     /\ \A i \in 1..Len(op.arg) : ~_requires_shift(op.arg[i]))
        => /\ outcome.st = "returned"
           /\ Len(wire) = 2 * Len(op.arg)
           /\ wire = C13_Presses(op.arg) \o C13_Releases(op.arg)
C13_Witness ==
    /\ pc = "done"
    /\ op.name = "hotkey"
    /\ op.arg = <<ctrl, alt, delete>>
    /\ wire = <<KeyEvent("ControlLeft", "true"), KeyEvent("AltLeft", "true"),
                KeyEvent("Delete", "true"), KeyEvent("Delete", "false"),
                KeyEvent("AltLeft", "false"), KeyEvent("ControlLeft", "false")>>

\* C14: a send_ctrl_alt_sup call that returns has sent exactly six events:
\* ControlLeft, AltLeft, Delete pressed in that order, then ControlLeft,
\* AltLeft, Delete released in the same order.
C14_CtrlAltDelSameOrder ==
    (pc = "done" /\ op.name = "send_ctrl_alt_sup" /\ outcome.st = "returned")
        => wire = <<KeyEvent("ControlLeft", "true"), KeyEvent("AltLeft", "true"),
                    KeyEvent("Delete", "true"), KeyEvent("ControlLeft", "false"),
                    KeyEvent("AltLeft", "false"), KeyEvent("Delete", "false")>>
C14_Witness ==
    /\ pc = "done"
    /\ op.name = "send_ctrl_alt_sup"
    /\ outcome.st = "returned"
    /\ Len(wire) = 6
    /\ wire[6].key = "Delete"

\* C15: for a single character c, send_input(c) delivers the same events as
\* PiKVMKeyboard.press(c).
C15_SendInputAsPress ==
    (pc = "done" /\ op.name = "send_input" /\ Len(op.arg) = 1)
        => wire = press(op.arg)

\* C16: a key name that is a key of the shift map, raw or in angle brackets,
\* and is neither an uppercase letter nor the double quote, needs shift and
\* resolves to the keycode the shift map gives it, also when it is a key of
\* the unshifted map: keyDown sends the shift press and then the press of
\* that keycode.
C16_Padded(key) ==
    IF Contains(key, <<"<">>) \/ Contains(key, <<">">>) THEN key ELSE Bracketed(key)
C16_InShiftMap(key) ==
    /\ ~isupper(key)
    /\ key # <<"\"">>
    /\ key \in DOMAIN map_shift_csv \/ C16_Padded(key) \in DOMAIN map_shift_csv
C16_ShiftKeycode(key) ==
    IF key \in DOMAIN map_shift_csv THEN map_shift_csv[key]
    ELSE map_shift_csv[C16_Padded(key)]
C16_ShiftMapKeysShifted ==
    (/\ pc = "done"
     /\ op.name = "keyDown"
     /\ op.arg # shift
     /\ C16_InShiftMap(op.arg))
        => /\ Len(wire) = 2
           /\ wire[2] = KeyEvent(C16_ShiftKeycode(op.arg), "true")

\* C17: _key_to_keycode returns the first hit of the ordered lookup (unshifted
\* map under the raw name, unshifted map under the bracketed name, shift map
\* under the raw name, shift map under the bracketed name, alias map under
\* the raw name) and, when all five miss, the keycode of the generic rules;
\* it raises for no name.  keyDown and keyUp send that keycode last.
C17_Lookups(key) ==
    <<[map |-> map_csv, name |-> key],
      [map |-> map_csv, name |-> C16_Padded(key)],
      [map |-> map_shift_csv, name |-> key],
      [map |-> map_shift_csv, name |-> C16_Padded(key)],
      [map |-> map_csv_pyautogui, name |-> key]>>
C17_Hit(l) == l.name \in DOMAIN l.map
C17_Generic(key) ==
    CASE isdigit(key) -> "Digit" \o Text(key)
      [] ~isdigit(key) /\ isspace(key) -> "Space"
      [] ~isdigit(key) /\ ~isspace(key) /\ key = <<"\"">> -> "Quote"
      [] OTHER -> "Key" \o Text(upper(key))
C17_Resolve(key) ==
    LET hits == SelectSeq(C17_Lookups(key), C17_Hit)
    IN  IF hits # <<>> THEN hits[1].map[hits[1].name] ELSE C17_Generic(key)
C17_FirstHitOfOrderedLookup ==
    (pc = "done" /\ op.name \in {"keyDown", "keyUp"})
        => /\ outcome.st = "returned"
           /\ wire # <<>>
           /\ wire[Len(wire)].key = C17_Resolve(op.arg)
C17_Witness ==
    /\ pc = "done"
    /\ op.name = "keyDown"
    /\ op.arg = <<"q">>
    /\ op.arg \in DOMAIN map_shift_csv
    /\ wire[Len(wire)].key = "F2"

\* C18: an uppercase letter c needs shift and resolves to Key<c>, a digit d
\* needs no shift and resolves to Digit<d>, in keyDown and keyUp as in
\* send_input: keyDown(c) and keyUp(c) send one ShiftLeft event and one
\* Key<c> event, send_input(c) sends the Key<c> tap inside a ShiftLeft press
\* and release; for a digit each sends Digit<d> events only.
C18_State == IF op.name = "keyDown" THEN "true" ELSE "false"
C18_LetterOrDigit ==
    /\ pc = "done"
    /\ op.name \in {"keyDown", "keyUp", "send_input"}
    /\ Len(op.arg) = 1
    /\ IsUpper(op.arg[1]) \/ op.arg[1] \in Digits
C18_Expected(c) ==
    IF IsUpper(c)
    THEN IF op.name = "send_input"
         THEN /\ wire = <<KeyEvent("ShiftLeft", "true"), KeyEvent("Key" \o c, "true"),
                          KeyEvent("Key" \o c, "false"), KeyEvent("ShiftLeft", "false")>>
         ELSE /\ Len(wire) = 2
              /\ {wire[1], wire[2]} = {KeyEvent("ShiftLeft", C18_State),
                                       KeyEvent("Key" \o c, C18_State)}
    ELSE IF op.name = "send_input"
         THEN wire = <<KeyEvent("Digit" \o c, "true"), KeyEvent("Digit" \o c, "false")>>
         ELSE wire = <<KeyEvent("Digit" \o c, C18_State)>>
C18_UppercaseShiftedDigitsPlain ==
    C18_LetterOrDigit => (outcome.st = "returned" /\ C18_Expected(op.arg[1]))
C18_Witness ==
    /\ pc = "done"
    /\ op.name = "keyDown"
    /\ op.arg = <<"Z">>
    /\ wire = <<KeyEvent("ShiftLeft", "true"), KeyEvent("KeyZ", "true")>>

\* C19: send_input of a double quote sends exactly one shifted Quote tap,
\* ShiftLeft down, Quote down, Quote up, ShiftLeft up, whatever the keymaps
\* hold.
C19_QuoteIsOneShiftedTap ==
    (pc = "done" /\ op.name = "send_input" /\ op.arg = <<"\"">>)
        => wire = <<KeyEvent("ShiftLeft", "true"), KeyEvent("Quote", "true"),
                    KeyEvent("Quote", "false"), KeyEvent("ShiftLeft", "false")>>

\* C20 as claimed: in send_input a character outside the accepted tokens
\* that is no letter, digit or whitespace and is a key of neither map_csv nor
\* map_shift_csv sends nothing and raises nothing, and the other characters
\* and the tokens are sent in order as if it were not there.
C20_Unmapped(c) ==
    /\ ~(isalpha(<<c>>) \/ isspace(<<c>>) \/ isdigit(<<c>>))
    /\ <<c>> \notin DOMAIN map_csv
    /\ <<c>> \notin DOMAIN map_shift_csv
RECURSIVE C20_Literals(_, _)
C20_Literals(chars, quoteToo) ==
    IF chars = <<>> THEN <<>>
    ELSE (IF C20_Unmapped(Head(chars)) /\ (quoteToo \/ Head(chars) # "\"")
          THEN <<>>
          ELSE C10_Literal(Head(chars)))
         \o C20_Literals(Tail(chars), quoteToo)
RECURSIVE C20_Output(_, _, _, _)
C20_Output(text, pos, tokens, quoteToo) ==
    IF tokens = <<>> THEN C20_Literals(SubSeq(text, pos, Len(text)), quoteToo)
    ELSE C20_Literals(SubSeq(text, pos, tokens[1].start - 1), quoteToo)
         \o C9_Tap(Text(tokens[1].word))
         \o C20_Output(text, tokens[1].end, Tail(tokens), quoteToo)
C20_UnmappedDropped ==
    (pc = "done" /\ op.name = "send_input")
        => /\ outcome.st = "returned"
           /\ wire = C20_Output(op.arg, 1, _find_special_keys(op.arg), TRUE)

\* C20 amended: the same for every such character other than the double
\* quote, which is sent as a shifted Quote tap.
C20_UnmappedButQuoteDropped ==
    (pc = "done" /\ op.name = "send_input")
        => /\ outcome.st = "returned"
           /\ wire = C20_Output(op.arg, 1, _find_special_keys(op.arg), FALSE)
C20_Witness ==
    /\ pc = "done"
    /\ op.name = "send_input"
    /\ op.arg = <<"h", "#", "2">>
    /\ C20_Unmapped("#")
    /\ wire = C9_Tap("KeyH") \o C9_Tap("Digit2")

\* C21: the stream flag of a Session is fixed at construction.  Every connect
\* and reconnect of a Session object uses the handshake query its constructor
\* built, which is stream=1 exactly when streamer_active is true; neither
\* attribute changes while the object lives.  _ensure_streamer_started drops
\* the facade's Session only when it is not stream-enabled and only after
\* closing it, constructs a new Session only when the facade has none, and
\* then with activate_streamer = True; whenever it returns normally the
\* facade has a Session whose streamer_active is true.
C21_SameHandshake ==
    /\ handshakes \subseteq {base_wss}
    /\ streamer_active # "unset" => base_wss = HandshakeQuery(streamer_active)
C21_ReturnsStreaming ==
    fpc = "returned" =>
        /\ ws_client = "Session"
        /\ streamer_active = "True"
        /\ base_wss = "/api/ws?stream=1"
C21_FlagFixed ==
    /\ streamer_active # "unset" =>
          streamer_active' \in {streamer_active, "unset"}
    /\ base_wss # "unset" => base_wss' \in {base_wss, "unset"}
    /\ (streamer_active' = "unset" /\ streamer_active # "unset") => pc' = "new"
C21_ClosedBeforeReplaced ==
    /\ (ws_client = "Session" /\ ws_client' = "None") =>
          /\ streamer_active = "False"
          /\ ~wsOpen'
          /\ calls' = <<Entry("close", 0, TRUE)>>
    /\ (pc' = "new" /\ pc # "new") =>
          /\ ws_client = "None"
          /\ ~wsOpen
          /\ activate_streamer' = "True"
C21_StreamFlagFixed ==
    /\ [](C21_SameHandshake /\ C21_ReturnsStreaming)
    /\ [][C21_FlagFixed /\ C21_ClosedBeforeReplaced]_vars
\* The facade's non-stream Session was closed and the constructor of the
\* stream-enabled one has returned, having connected at its second attempt.
C21_Witness ==
    /\ fpc = "constructing"
    /\ pc = "done"
    /\ calls # <<>>
    /\ calls[1] = Entry("close", 0, TRUE)
    /\ Count("connect") = 2
    /\ handshakes = {"/api/ws?stream=1"}
    /\ streamer_active = "True"

\* C22: a get_json_message call whose recv returns takes exactly one message,
\* the oldest waiting one, from the connection.  When that payload is a JSON
\* document the call returns the parsed value; when it is not, the call
\* returns None and does not raise.  Either way the handle, its open state,
\* the Session's attributes and the facade are as before the call.
C22_WellFormed ==
    {TextFrame(StreamerOnlineText), TextFrame(StreamerOfflineText),
     TextFrame("null"), BinaryFrame("{}")}
C22_Received ==
    /\ pc = "done"
    /\ op.name = "get_json_message"
    /\ calls = <<Entry("recv", 0, TRUE)>>
C22_Result ==
    C22_Received =>
        /\ outcome.st = "returned"
        /\ outcome.ret = IF op.arg \in C22_WellFormed
                         THEN json_loads(op.arg)
                         ELSE JsonNone
        /\ ws = 0
C22_OneMessage ==
    (pc = "idle" /\ C22_Received') =>
        /\ inbox # <<>>
        /\ op'.arg = Head(inbox)
        /\ inbox' = Tail(inbox)
        /\ wsOpen' = wsOpen
        /\ UNCHANGED <<config, stream, facade>>
C22_OneMessageParsedOrNone ==
    /\ []C22_Result
    /\ [][C22_OneMessage]_vars

\* C23: a keymap load completes whatever rows the file has, and the map it
\* returns holds exactly the entries of the rows with two columns or more, a
\* later row overriding an earlier one with the same name; rows with fewer
\* columns, blank lines and first rows included, are skipped.
C23_WellFormed(rows) == SelectSeq(rows, LAMBDA row : Len(row) >= 2)
C23_Expected(rows) ==
    LET wf == C23_WellFormed(rows) IN
    [k \in {wf[i][1] : i \in 1..Len(wf)} |->
        LET last == CHOOSE i \in 1..Len(wf) :
                        /\ wf[i][1] = k
                        /\ \A j \in (i + 1)..Len(wf) : wf[j][1] # k
        IN  wf[last][2]]
C23_Loaded == pc = "done" /\ op.name \in {"_map_csv", "_load_keymap_pyautogui"}
C23_MalformedRowsSkipped ==
    C23_Loaded =>
        /\ outcome.st = "returned"
        /\ outcome.ret = C23_Expected(op.arg)

Abs(n) == IF n >= 0 THEN n ELSE -n

\* C24: _scale_mouse_xy_to_i16 returns, for a frame of positive size and a
\* pixel of it, on each axis an integer nearest to
\* (pixel / size) * 65535 - 32768: one at most 1/2 away from that value.
C24_Nearest(r, screen, size) ==
    2 * Abs(r * size - (screen * 65535 - 32768 * size)) <= size
C24_Scaled == pc = "done" /\ op.name = "_scale_mouse_xy_to_i16"
C24_ScalesToNearest ==
    C24_Scaled =>
        /\ C24_Nearest(outcome.ret[1], op.arg[1], op.arg[3])
        /\ C24_Nearest(outcome.ret[2], op.arg[2], op.arg[4])

\* C25: on each axis of a frame of positive size, _scale_mouse_xy_to_i16 maps
\* pixel 0 to -32768, the pixel equal to the size to 32767 and the centre of
\* an even size to 0; it maps no pixel of 0..size below a smaller pixel's
\* value, and every pixel of 0..size into -32768..32767.
C25_Axis(r, screen, size) ==
    /\ screen = 0 => r = -32768
    /\ screen = size => r = 32767
    /\ 2 * screen = size => r = 0
    /\ r >= -32768
    /\ r <= 32767
    /\ \A other \in 0..size :
          /\ other <= screen => _scale_axis(other, size) <= r
          /\ other >= screen => _scale_axis(other, size) >= r
C25_ScalingMonotoneInRange ==
    C24_Scaled =>
        /\ C25_Axis(outcome.ret[1], op.arg[1], op.arg[3])
        /\ C25_Axis(outcome.ret[2], op.arg[2], op.arg[4])
\* The centre of the 1920 x 1080 frame of the tests.
C25_Witness ==
    /\ C24_Scaled
    /\ op.arg = <<960, 540, 1920, 1080>>
    /\ outcome.ret = <<0, 0>>

\* C26: send_mouse_move_event calls get_streamer_image only while the cached
\* width or height is unset: with both set no step calls it or changes them; a
\* move made with both set goes straight to sending its one mouse_move event;
\* a move that returns has sent exactly the one event scaled by the cached
\* size; a move whose get_streamer_image raises has sent nothing and leaves
\* width and height unset.
C26_Move == op.name = "send_mouse_move_event"
C26_Fetched(ok) == calls = <<Entry("get_streamer_image", 0, ok)>>
C26_Event ==
    mouse_move_event(_scale_mouse_xy_to_i16(op.arg[1], op.arg[2],
                                            width[1], height[1]))
C26_State ==
    /\ (width = <<>>) <=> (height = <<>>)
    /\ pc = "fetch" => C26_Move /\ width = <<>>
    /\ Count("get_streamer_image") > 0 =>
          /\ C26_Move
          /\ \/ /\ C26_Fetched(TRUE)
                /\ pc = "next"
                /\ width # <<>>
                /\ wire = <<>>
                /\ queue = <<C26_Event>>
             \/ /\ C26_Fetched(FALSE)
                /\ pc = "done"
                /\ outcome.st = "raised"
    /\ pc = "done" /\ C26_Move /\ outcome.st = "returned" =>
          /\ width # <<>>
          /\ height # <<>>
          /\ wire = <<C26_Event>>
    /\ pc = "done" /\ C26_Move /\ outcome.st = "raised" =>
          /\ C26_Fetched(FALSE)
          /\ wire = <<>>
          /\ width = <<>>
          /\ height = <<>>
C26_Step ==
    /\ width # <<>> /\ height # <<>> =>
          /\ pc' # "fetch"
          /\ width' = width
          /\ height' = height
    /\ pc = "idle" /\ op'.name = "send_mouse_move_event" /\ width # <<>> =>
          /\ pc' = "next"
          /\ calls' = <<>>
          /\ queue' = <<mouse_move_event(_scale_mouse_xy_to_i16(
                           op'.arg[1], op'.arg[2], width[1], height[1]))>>
C26_FetchOnlyWhileUnset == []C26_State /\ [][C26_Step]_vars
\* A move made with the 1920 x 1080 frame cached, about to send its event.
C26_Witness ==
    /\ pc = "next"
    /\ C26_Move
    /\ op.arg = <<960, 540>>
    /\ width = <<1920>>
    /\ height = <<1080>>
    /\ calls = <<>>
    /\ queue = <<mouse_move_event(<<0, 0>>)>>

\* C27: send_mouse_event sends exactly one mouse_button event when state is
\* "true" or "false" and button is left, right, middle, up or down; with
\* another state it raises ValueError for the state and sends nothing,
\* whatever the button; with a valid state and another button it raises
\* ValueError for the button and sends nothing; send_click(b) sends the press
\* of b and then its release, and nothing for a button that is not one.
C27_ButtonEvent ==
    pc = "done" /\ op.name = "send_mouse_event" =>
        IF op.arg[2] \notin {"true", "false"}
        THEN /\ outcome = Raised("ValueError: Invalid mouse button state")
             /\ wire = <<>>
        ELSE IF op.arg[1] \notin Buttons
        THEN /\ outcome = Raised("ValueError: Invalid mouse button")
             /\ wire = <<>>
        ELSE /\ outcome = Returned("None")
             /\ wire = <<mouse_button_event(op.arg[1], op.arg[2])>>
C27_Click ==
    pc = "done" /\ op.name = "send_click" =>
        IF op.arg \notin Buttons
        THEN /\ outcome = Raised("ValueError: Invalid mouse button")
             /\ wire = <<>>
        ELSE /\ outcome = Returned("None")
             /\ wire = <<mouse_button_event(op.arg, "true"),
                         mouse_button_event(op.arg, "false")>>
C27_ButtonEventsValidated == C27_ButtonEvent /\ C27_Click
\* Neither the state nor the button is valid: the state is reported.
C27_Witness ==
    /\ pc = "done"
    /\ op = [name |-> "send_mouse_event", arg |-> <<"invalid", "invalid">>]
    /\ outcome = Raised("ValueError: Invalid mouse button state")
    /\ wire = <<>>

\* C28: send_key_press with action "true" or "false" sends exactly one key
\* event, of the key and with the requested state, and no opposite event; with
\* another action it raises and sends nothing.  So a key pressed by one call
\* stays down across the calls that follow: a press of ControlLeft,
\* send_input("b") and a release of ControlLeft put on the wire ControlLeft
\* down, KeyB down, KeyB up, ControlLeft up.
C28_OneHalf(call) ==
    call.op.name = "send_key_press" =>
        IF call.op.arg[2] \in {"true", "false"}
        THEN /\ call.st = "returned"
             /\ call.wire = <<_create_event(call.op.arg[1], call.op.arg[2])>>
        ELSE /\ call.st = "raised"
             /\ call.wire = <<>>
RECURSIVE C28_Events(_)
C28_Events(log) ==
    IF log = <<>> THEN <<>> ELSE Head(log).wire \o C28_Events(Tail(log))
C28_Held ==
    /\ Len(received) = 3
    /\ received[1].op = [name |-> "send_key_press", arg |-> <<"ControlLeft", "true">>]
    /\ received[2].op = [name |-> "send_input", arg |-> <<"b">>]
    /\ received[3].op = [name |-> "send_key_press", arg |-> <<"ControlLeft", "false">>]
C28_RawPressRelease ==
    /\ \A i \in 1..Len(received) : C28_OneHalf(received[i])
    /\ pc = "done" => C28_OneHalf([op |-> op, st |-> outcome.st, wire |-> wire])
    /\ C28_Held =>
          C28_Events(received) =
              <<_create_event("ControlLeft", "true"), _create_event("KeyB", "true"),
                _create_event("KeyB", "false"), _create_event("ControlLeft", "false")>>
\* ControlLeft held while b is typed, then released.
C28_Witness ==
    /\ C28_Held
    /\ Len(C28_Events(received)) = 4

\* C29: whatever max_retries is, 0 included, and however the transport fails,
\* a _send_with_retry call that has returned has had exactly one send accepted
\* by the transport, and one that has raised has had none accepted.
C29_NeverDroppedNorTwice ==
    /\ sstat = "returned" => CountOk("send", TRUE) = 1
    /\ sstat = "raised" => CountOk("send", TRUE) = 0

\* C30: a _send_with_retry call that raises one of the transport errors has
\* had max_retries attempts fail; a reconnect that fails after a failed send
\* does not end the call while budget remains.
C30_RaisesOnlyWhenExhausted ==
    sstat = "raised" /\ outcome.exc \in SendCaught => retries = max_retries

\* C31: whenever a call replaces the transport handle, in _ensure_connection
\* or after a failed send of _send_with_retry, close has been called on the
\* previous handle before the first connection attempt for the new one, and
\* the previous handle is not used again; so a handle that has been replaced
\* has been closed, and at most one handle is open at any time.
C31_Replaces(i) == calls[i].c = "connect" /\ calls[i].h >= 1
C31_OpenAfter(j) ==
    { h \in 0..ws :
        /\ h = 0 \/ \E i \in 1..j : calls[i] = Entry("connect", h, TRUE)
        /\ \A i \in 1..j : ~(calls[i].c = "close" /\ calls[i].h = h) }
C31_ClosedBeforeReplaced ==
    op.name # "__init__" =>
        /\ \A i \in 1..Len(calls) :
              C31_Replaces(i) =>
                 \E k \in 1..(i - 1) :
                    /\ calls[k].c = "close"
                    /\ calls[k].h = calls[i].h - 1
                    /\ \A j \in 1..k : ~(calls[j].c = "connect" /\ calls[j].h = calls[i].h)
                    /\ \A j \in k..Len(calls) :
                          calls[j].c \in {"ping", "send"} => calls[j].h # calls[k].h
        /\ \A h \in 0..(ws - 1) : ClosesOf(h) # {}
        /\ \A j \in 0..Len(calls) : Cardinality(C31_OpenAfter(j)) <= 1
\* A call that has replaced its handle twice: once in _ensure_connection and
\* once after a failed send.
C31_Witness ==
    /\ pc = "done"
    /\ sstat = "returned"
    /\ ws = 2
    /\ calls[1] = Entry("ping", 0, FALSE)
    /\ calls[2].c = "close"
    /\ CountOk("send", FALSE) = 1
    /\ Count("close") = 2

\* C32: after a _send_with_retry or _ensure_connection call has raised
\* because its attempts failed, and with close() not called, the Session can
\* be used again: on a transport in working order every later _send_with_retry
\* call ends, returns normally and has its payload accepted exactly once, after
\* a reconnect if the handle it found had been closed.
C32_AfterOutage == received # <<>> /\ received[1].st = "raised"
C32_Sending == C32_AfterOutage /\ op.name = "_send_with_retry" /\ pc # "idle"
C32_Delivered ==
    /\ pc = "done"
    /\ op.name = "_send_with_retry"
    /\ outcome = Returned("None")
    /\ wire = <<op.arg>>
    /\ CountOk("send", TRUE) = 1
    /\ wsOpen
    /\ calls[1] = Entry("ping", 0, FALSE) => CountOk("connect", TRUE) = 1
C33_Closed ==
    \E i \in 1..Len(received) :
       received[i].op.name = "close" /\ received[i].st = "returned"
C33_StaysClosed ==
    C33_Closed =>
        /\ ~wsOpen
        /\ wire = <<>>
        /\ Count("connect") = 0

\* C34: a construction that fails, while connecting or while reading a keymap
\* file after the connection was opened, leaves no open connection: the handle
\* it opened has been closed when the error propagates.
C34_FailedConstructionClosed ==
    pc = "failed" =>
        /\ ~wsOpen
        /\ CountOk("connect", TRUE) = 1 => Last(calls).c = "close"

\* C36: whatever the key name and whatever the keymaps hold, keyDown and keyUp
\* end by returning, the nested call for shift not calling itself again, and
\* have sent at most two events: the target's, and with it at most one event
\* of the shift key.
C36_Ended == pc = "done" /\ op.name \in {"keyDown", "keyUp"}
C36_State == IF op.name = "keyDown" THEN "true" ELSE "false"
C36_Target == _create_event(_key_to_keycode(op.arg), C36_State)
C36_Shift == _create_event(_key_to_keycode(shift), C36_State)
C36_AtMostOneShift ==
    C36_Ended =>
        /\ outcome = Returned("None")
        /\ wire \in {<<C36_Target>>, <<C36_Shift, C36_Target>>}

\* C35: for every accepted bracketed token of send_input the press and the
\* release carry the keycode map_csv assigns to the token, and every key event
\* send_input emits carries a value of a keymap or a keycode of the Key<..>,
\* Digit<..> and Space rules (ShiftLeft and Quote being the keycodes the code
\* names itself).
C35_Values(map) == { map[k] : k \in DOMAIN map }
C35_RuleKeycodes ==
    { "Key" \o Uppers[i] : i \in 1..26 } \cup { "Digit" \o d : d \in Digits }
    \cup {"Space", "ShiftLeft", "Quote"}
RECURSIVE C35_Output(_, _, _)
C35_Output(text, pos, tokens) ==
    IF tokens = <<>> THEN C10_Literals(SubSeq(text, pos, Len(text)))
    ELSE C10_Literals(SubSeq(text, pos, tokens[1].start - 1))
         \o C9_Tap(map_csv[tokens[1].group])
         \o C35_Output(text, tokens[1].end, Tail(tokens))
C35_TokenSendsMappedKeycode ==
    (pc = "done" /\ op.name = "send_input")
        => LET tokens == _find_special_keys(op.arg) IN
           /\ (\A k \in 1..Len(tokens) : tokens[k].group \in DOMAIN map_csv)
                 => wire = C35_Output(op.arg, 1, tokens)
           /\ \A i \in 1..Len(wire) :
                 wire[i].key \in C35_Values(map_csv) \cup C35_Values(map_shift_csv)
                                 \cup C35_RuleKeycodes

\* C37: both snapshot fetches stop by themselves when the device keeps
\* answering with an error result: get_streamer_image makes at most
\* max_retries + 1 requests and then raises its Exception, and
\* get_streamer_snapshot likewise stops retrying by itself: it does not go
\* on until the interpreter's stack is exhausted.
C37_FetchesBounded ==
    /\ snap.fn = "get_streamer_image" =>
          /\ snap.requests <= snap.arg + 1
          /\ (snap.at = "raised" /\ snap.requests = snap.arg + 1)
                => outcome = Raised("Exception")
    /\ (snap.fn = "get_streamer_snapshot" /\ snap.at = "raised")
          => outcome.exc # "RecursionError"

\* C38: every handshake of a Session that has a one-time-code secret, the
\* first one and each reconnect of _ensure_connection and _send_with_retry,
\* carries in the password header the one-time code of the period in which
\* the handshake is made.
C38_Handshake == pc = "connect" /\ calls' # calls
C38_HandshakeCarriesCurrentCode ==
    [][(C38_Handshake /\ secret # "None")
          => headers.passwd = [password |-> "password", totp |-> TOTP_now]]_vars

\* C39: the Session provides no mutual exclusion: while one thread's
\* send_input is between the ShiftLeft down and the ShiftLeft up of a shifted
\* character, a second thread that has reached its ws.send can send, so that
\* its key event is delivered inside the other's shift.
C39_ShiftHeld ==
    /\ pc \in {"next", "ping", "send"}
    /\ op.name = "send_input"
    /\ \E i \in 1..Len(queue) :
          /\ queue[i] = KeyEvent("ShiftLeft", "false")
          /\ \A j \in 1..(i - 1) : queue[j] # KeyEvent("ShiftLeft", "true")
C39_NoMutualExclusion ==
    (C39_ShiftHeld /\ thread2.pc = "send") => ENABLED Thread2Send
C39_Witness ==
    /\ pc = "done"
    /\ op.name = "send_input"
    /\ op.arg = <<"H">>
    /\ thread2.arg = <<"a">>
    /\ wire = <<KeyEvent("ShiftLeft", "true"), KeyEvent("KeyA", "true"),
                KeyEvent("KeyA", "false"), KeyEvent("KeyH", "true"),
                KeyEvent("KeyH", "false"), KeyEvent("ShiftLeft", "false")>>

====
